---- MODULE Spec2Model ----
(***************************************************************************)
(* A model of the gateway connection subsystem of Novus:                   *)
(*   novus/api/gateway/gateway.py   GatewayConnection, GatewayShard        *)
(*   novus/api/gateway/dispatch.py  GatewayDispatch                        *)
(*                                                                         *)
(* Every coroutine of a shard is a task record in tasks[s]; an action is   *)
(* the code a task runs between two suspension points (an await that can   *)
(* yield to the event loop).  The gateway server and the socket library    *)
(* are the environment: they choose the frames a receive() reads, whether  *)
(* a connect succeeds and when a timeout fires.                            *)
(***************************************************************************)
EXTENDS Integers, Sequences, FiniteSets, TLC

\* ------------------------------------------------------------------ bounds
MaxShardId == 3
MaxAttempt == 2
MaxSockets == 2
MaxTasks == 3
MaxServerMsgs == 4
MaxBeats == 2
MaxGateMsgs == 2
MaxPending == 2
MaxGuildVer == 2
MaxChannelMsgs == 5
MaxDeepTasks == 4
MaxDeepSockets == 3
MaxDeepBeats == 3

\* ------------------------------------------------- constants of the program
OP_DISPATCH == 0
OP_HEARTBEAT == 1
OP_IDENTIFY == 2
OP_PRESENCE == 3
OP_REQUEST_MEMBERS == 8
OP_RESUME == 6
OP_RECONNECT == 7
OP_INVALIDATE_SESSION == 9
OP_HELLO == 10
OP_HEARTBEAT_ACK == 11
ConnectSemaphoreSize == 100
BeatAttemptRetryMax == 5

\* Python's None for an int-valued attribute (sequence, a null "s").
NoneInt == 0 - 1
\* Python's None for a string-valued attribute (session_id).
NoneStr == "None"

ShardIds == 0 .. MaxShardId

VARIABLES
    \* GatewayConnection
    shards,               \* keys of GatewayConnection.shards
    shard_count,          \* GatewayConnection.shard_count
    intents,              \* GatewayConnection.intents (the flag value)
    max_concurrency,      \* capacity the identify semaphore was built with
    closing,              \* the owner's GatewayShard.close(): "no", "closing", "closed"
    identify_semaphore,   \* free permits of the identify semaphore
    connect_semaphore,    \* free permits of the connect semaphore
    exited,               \* exit(1) was called
    \* GatewayShard, one entry per shard id
    state,
    connecting,           \* asyncio.Event
    ready_received,       \* asyncio.Event
    heartbeat_received,   \* asyncio.Event
    socket,               \* [id, open]: id 0 is None
    buffer,               \* _buffer
    zlib,                 \* _zlib: 0 fresh, n positioned in socket n's stream
    sequence,
    session_id,
    resume_url,
    dispatch_attrs,       \* attributes set on the shard's GatewayDispatch object
    tasks,                \* the shard's coroutines: a sequence of task records
    pending,              \* dispatch handler tasks created and not yet started
    suspended,            \* dispatch handler tasks suspended in guild._sync
    sent,                 \* the last message written to a socket
    chunks,               \* chunk_counter, chunk_event, chunk_groups, by nonce
    \* the shared cache (parent.cache)
    cache,
    \* environment: the gateway server's side of each shard's connection
    stream,               \* [wire, used, hello]: the socket's incoming stream
    srv,                  \* [seq, expect, active, ack_due, n, beats]: the session
    \* history
    received,             \* DISPATCH messages read by message_handler, in order
    started,              \* dispatch handlers started, in order
    results               \* what each finished handle_dispatch call produced

connvars == <<shards, shard_count, intents, max_concurrency, closing, chunks>>
semvars == <<identify_semaphore, connect_semaphore>>
eventvars == <<connecting, ready_received, heartbeat_received>>
sockvars == <<socket, buffer, zlib>>
sessvars == <<sequence, session_id, resume_url, dispatch_attrs>>
dispvars == <<pending, suspended, cache, started, results>>
envvars == <<stream, srv>>

vars == <<shards, shard_count, intents, max_concurrency, closing, chunks,
          identify_semaphore,
          connect_semaphore, exited, state, connecting, ready_received,
          heartbeat_received, socket, buffer, zlib, sequence, session_id,
          resume_url, dispatch_attrs, tasks, pending, suspended, sent, cache,
          stream, srv, received, started, results>>

\* ----------------------------------------------------------------- helpers
\* The shards whose behaviour is explored further: more coroutines at a time
\* and one more socket (SpecRace connects one of them).
DeepShards == {2}

TaskLimit(s) == IF s \in DeepShards THEN MaxDeepTasks ELSE MaxTasks

SocketLimit(s) == IF s \in DeepShards THEN MaxDeepSockets ELSE MaxSockets
BeatLimit(s) == IF s \in DeepShards THEN MaxDeepBeats ELSE MaxBeats

Upd(f, s, v) == [f EXCEPT ![s] = v]

SetAt(q, i, v) == [q EXCEPT ![i] = v]

\* A task record.  kind: "connect" (reconnect/connect/_connect),
\* "heartbeat", "message" (message_handler), "identify" (a spawned
\* send_resume_identify).  ref: the task is the one heartbeat_task /
\* message_task refers to.  cancel: Task.cancel() was called and the
\* CancelledError is not yet delivered.  woken: an Event the task waits on
\* was set (the waiter is released even if the Event is cleared again).
\* root: the task is a shard.connect() awaited by GatewayConnection.connect.
Task(kind, pc, resume, attempt, sleep) ==
    [kind |-> kind, pc |-> pc, resume |-> resume, attempt |-> attempt,
     ba |-> 0, cancel |-> FALSE, ref |-> FALSE, url |-> "base", sleep |-> sleep,
     woken |-> FALSE, root |-> FALSE]

NoMsg == [sock |-> 0, op |-> NoneInt, shard |-> <<0, 0>>, intents |-> 0,
          session_id |-> NoneStr, seq |-> NoneInt]

\* socket is not None and not socket.closed
SocketOpen(s) == socket[s].id # 0 /\ socket[s].open

\* --------------------------------------------------------- wire messages
\* The "d" of a gateway message, one shape for every opcode: flag is the
\* INVALIDATE_SESSION payload, gid/ver/has_members/members a guild payload,
\* member a member payload (TYPING_START).
Payload(flag, gid, ver, has_members, members, member) ==
    [flag |-> flag, gid |-> gid, ver |-> ver, has_members |-> has_members,
     members |-> members, member |-> member]

NoPayload == Payload(FALSE, 0, 0, FALSE, {}, 0)

\* {op, t, s, d}
Msg(op, t, s, d) == [op |-> op, t |-> t, s |-> s, d |-> d]

EmptyM == Msg(NoneInt, NoneStr, NoneInt, NoPayload)

\* One byte of a binary frame.  A deflate block of the compressed stream is
\* one byte Z(m) standing for the compressed JSON text of message m; the
\* Z_SYNC_FLUSH marker that ends a message is the four bytes 00 00 FF FF.
Raw(v) == [v |-> v, m |-> EmptyM]

Z(m) == [v |-> NoneInt, m |-> m]

Marker == <<Raw(0), Raw(0), Raw(255), Raw(255)>>

Compressed(m) == <<Z(m)>> \o Marker

\* self._buffer[-4:] == b"\x00\x00\xff\xff"
EndsWithMarker(buf) ==
    /\ Len(buf) >= 4
    /\ SubSeq(buf, Len(buf) - 3, Len(buf)) = Marker

\* zlib: the decompressor follows the stream if it is fresh and the stream
\* is at its start, or if it already decompressed this socket's stream.
InSync(z, sockid, used) == (z = 0 /\ ~used) \/ (z # 0 /\ z = sockid)

\* self._zlib.decompress(self._buffer): the text, or an error
DecompressOk(buf, z, sockid, used) ==
    /\ InSync(z, sockid, used)
    /\ Len(buf) = 5
    /\ buf[1].m # EmptyM
    /\ EndsWithMarker(buf)

\* A message whose decompressed text is not a JSON document
BadJson == Msg(NoneInt, "not json", NoneInt, NoPayload)

\* json.loads(decoded) returns
ParseOk(m) == m # BadJson

\* ------------------------------------------------------------ task helpers
Alive(t) == t.pc # "done" \/ t.ref

\* A finished task is forgotten unless heartbeat_task/message_task holds it.
GC(ts) == SelectSeq(ts, Alive)

Finish(ts, i) == SetAt(ts, i, [ts[i] EXCEPT !.pc = "done", !.cancel = FALSE])

\* self.heartbeat_task.cancel() / self.message_task.cancel()
CancelRef(ts, kind) ==
    [j \in DOMAIN ts |->
        IF ts[j].kind = kind /\ ts[j].ref /\ ts[j].pc # "done"
        THEN [ts[j] EXCEPT !.cancel = TRUE] ELSE ts[j]]

\* heartbeat_task / message_task is assigned a new task
Unref(ts, kind) ==
    [j \in DOMAIN ts |->
        IF ts[j].kind = kind THEN [ts[j] EXCEPT !.ref = FALSE] ELSE ts[j]]

Ref(t) == [t EXCEPT !.ref = TRUE]

\* close(): the two cancels of lines 663-666
CloseCancels(ts) == CancelRef(CancelRef(ts, "heartbeat"), "message")

IsTask(s, i, kind, pc) ==
    /\ s \in shards
    /\ ~exited
    /\ i \in DOMAIN tasks[s]
    /\ tasks[s][i].kind = kind
    /\ tasks[s][i].pc = pc
    /\ ~tasks[s][i].cancel

\* ----------------------------------------------------------- environment
FreshStream == [wire |-> <<>>, used |-> FALSE, hello |-> FALSE]

NoSession == [seq |-> 0, expect |-> "none", active |-> FALSE,
              ack_due |-> FALSE, n |-> 0, beats |-> 0]

Dispatch(t, s, d) == Msg(OP_DISPATCH, t, s, d)

\* The messages the server may start to send on shard s's socket; evs is
\* the set of [t, d] events it may dispatch.
ServerMsgs(s, evs) ==
    IF ~stream[s].hello
    THEN {Msg(OP_HELLO, NoneStr, NoneInt, NoPayload)}
    ELSE IF srv[s].n >= MaxServerMsgs THEN {}
    ELSE
      LET more == TRUE
          inval == srv[s].expect # "none" \/ srv[s].active
      IN  {Dispatch("READY", 1, NoPayload) :
              x \in {1} \cap {y \in {1} : srv[s].expect = "identify" /\ more}}
          \cup {Dispatch("RESUMED", q, NoPayload) :
              q \in {y \in {srv[s].seq, srv[s].seq + 1} :
                       srv[s].expect = "resume" /\ srv[s].seq >= 1 /\ more}}
          \cup {Dispatch(e.t, srv[s].seq + 1, e.d) :
              e \in {y \in evs : /\ more
                                 /\ \/ srv[s].active
                                    \/ srv[s].expect = "resume" /\ srv[s].seq >= 1}}
          \cup {Msg(OP_HEARTBEAT_ACK, NoneStr, NoneInt, NoPayload) :
              x \in {y \in {1} : srv[s].ack_due}}
          \cup {Msg(OP_HEARTBEAT, NoneStr, NoneInt, NoPayload),
                Msg(OP_RECONNECT, NoneStr, NoneInt, NoPayload)}
          \cup {Msg(OP_INVALIDATE_SESSION, NoneStr, NoneInt,
                    Payload(b, 0, 0, FALSE, {}, 0)) :
              b \in {y \in BOOLEAN : inval}}

\* The server's session after it has sent m.
SrvAfterSend(v, m) ==
    IF m.op = OP_HELLO THEN v
    ELSE IF m.op = OP_DISPATCH
    THEN [v EXCEPT !.seq = m.s, !.n = v.n + 1,
                   !.expect = IF m.t \in {"READY", "RESUMED"} THEN "none" ELSE v.expect,
                   !.active = IF m.t \in {"READY", "RESUMED"} THEN TRUE ELSE v.active]
    ELSE IF m.op = OP_HEARTBEAT_ACK THEN [v EXCEPT !.ack_due = FALSE, !.n = v.n + 1]
    ELSE IF m.op = OP_INVALIDATE_SESSION
         THEN [v EXCEPT !.active = FALSE, !.expect = "none", !.n = v.n + 1]
    ELSE [v EXCEPT !.n = v.n + 1]

\* The server's session after it has read a message of the client.
SrvAfterRecv(v, c) ==
    IF c.op = OP_IDENTIFY
    THEN [v EXCEPT !.seq = 0, !.expect = "identify", !.active = FALSE]
    ELSE IF c.op = OP_RESUME
         THEN [v EXCEPT !.seq = IF c.seq = NoneInt THEN 0 ELSE c.seq,
                        !.expect = "resume", !.active = FALSE]
    ELSE IF c.op = OP_HEARTBEAT THEN [v EXCEPT !.ack_due = TRUE, !.beats = v.beats + 1]
    ELSE v

\* A frame read by socket.receive(): type BINARY carries the next n bytes of
\* the stream (of message m when none is in transit); the other types are
\* ERROR, CLOSE_NONE (a CLOSE frame without a code) and CLOSE_AUTH (a CLOSE
\* frame whose code is the authentication failure).
Frame(type, m, n) == [type |-> type, m |-> m, n |-> n]

Wire0(s, f) == IF stream[s].wire = <<>> THEN Compressed(f.m) ELSE stream[s].wire

FrameBytes(s, f) == SubSeq(Wire0(s, f), 1, f.n)

\* The frames the environment can deliver on shard s's open socket; splits
\* is the set of frame lengths it may cut the stream into.
Frames(s, evs, splits) ==
    IF stream[s].wire = <<>>
    THEN {Frame("BINARY", m, n) : m \in ServerMsgs(s, evs), n \in splits}
    ELSE {Frame("BINARY", EmptyM, n) : n \in {k \in splits : k <= Len(stream[s].wire)}}

ControlFrames == {Frame(ty, EmptyM, 0) : ty \in {"ERROR", "CLOSE_NONE", "CLOSE_AUTH"}}

StreamAfter(s, f) ==
    IF f.type # "BINARY" THEN stream[s]
    ELSE LET w == Wire0(s, f)
             rest == SubSeq(w, f.n + 1, Len(w))
         IN  [wire |-> rest, used |-> stream[s].used \/ rest = <<>>, hello |-> TRUE]

SrvAfter(s, f) ==
    IF f.type = "BINARY" /\ stream[s].wire = <<>>
    THEN SrvAfterSend(srv[s], f.m) ELSE srv[s]

\* ------------------------------------------------------ GatewayShard.receive
RecvBuffer(s, f) ==
    IF f.type = "BINARY" THEN buffer[s] \o FrameBytes(s, f) ELSE buffer[s]

\* What one pass of receive() does with frame f: "msg" (a parsed message is
\* returned), "none" (None is returned) or the exception raised.
IncompleteResult == "none"

\* A faulty decoder: a failed decompression only makes receive() return None
DecompressIgnored == "none"

\* self._zlib.decompress raises: `raise GatewayClose()` (lines 448-453)
DecompressError == "GatewayClose"

RecvOutcome(s, f) ==
    IF f.type = "ERROR" THEN "none"
    ELSE IF f.type = "CLOSE_NONE" THEN "GatewayClosed"
    ELSE IF f.type = "CLOSE_AUTH" THEN "GatewayAuthenticationFailed"
    ELSE IF ~EndsWithMarker(RecvBuffer(s, f)) THEN IncompleteResult
    ELSE IF ~DecompressOk(RecvBuffer(s, f), zlib[s], socket[s].id, stream[s].used)
         THEN DecompressError
    ELSE IF ~ParseOk(RecvBuffer(s, f)[1].m) THEN "JSONDecodeError"
    ELSE "msg"

RecvParsed(s, f) == RecvBuffer(s, f)[1].m

\* self._buffer.clear() (line 454) runs once the decompression has succeeded
BufferAfter(s, f) ==
    IF RecvOutcome(s, f) \in {"msg", "JSONDecodeError"} THEN <<>> ELSE RecvBuffer(s, f)

ZlibAfter(s, f) ==
    IF RecvOutcome(s, f) \in {"msg", "JSONDecodeError"} THEN socket[s].id
    ELSE IF ~EndsWithMarker(RecvBuffer(s, f)) \/ f.type # "BINARY" THEN zlib[s]
    ELSE NoneInt

\* aiohttp marks the socket closed when it hands out an ERROR or CLOSE frame
SocketAfter(s, f) ==
    IF f.type = "BINARY" THEN socket[s] ELSE [socket[s] EXCEPT !.open = FALSE]

\* ----------------------------------------------- GatewayConnection.connect
\* shard_ids or list(range(shard_count))
ShardIdsOf(ids, count) == IF ids = {} THEN 0 .. (count - 1) ELSE ids

ConnectionConnect(ids, count, mc, iv, slp) ==
    /\ shards = {}
    /\ ~exited
    /\ shards' = ShardIdsOf(ids, count)
    /\ shard_count' = count
    /\ intents' = iv
    /\ max_concurrency' = mc
    /\ identify_semaphore' = mc
    /\ connect_semaphore' = ConnectSemaphoreSize
    /\ tasks' = [s \in ShardIds |->
                    IF s \in ShardIdsOf(ids, count)
                    THEN <<[Task("connect", "c_start", FALSE, 1, slp /\ s # 0)
                              EXCEPT !.root = TRUE]>>
                    ELSE <<>>]
    /\ UNCHANGED <<closing, chunks, exited, state, eventvars, sockvars, sessvars,
                   dispvars, sent, envvars, received>>

\* ------------------------------------------- GatewayShard.reconnect/_connect
PendingState(resume) == IF resume THEN "Pending reconnect" ELSE "Pending connect"

ConnectingState(resume) == IF resume THEN "Reconnecting" ELSE "Connecting"

\* _connect from its entry to its first suspension, the socket not open:
\* lines 524-526 and 541-556.
ConnectResetsSequence(resume) == resume = FALSE

EnterConnect(s, i, tk) ==
    /\ connecting' = Upd(connecting, s, TRUE)
    /\ buffer' = Upd(buffer, s, <<>>)
    /\ zlib' = Upd(zlib, s, 0)
    /\ sequence' = IF ConnectResetsSequence(tk.resume)
                   THEN Upd(sequence, s, NoneInt) ELSE sequence
    /\ state' = Upd(state, s, IF tk.sleep THEN "Sleeping before connecting"
                              ELSE PendingState(tk.resume))

\* reconnect(): connecting.set(), close(code=0), then connect(resume_url, resume)
ReconnectStart(s, i) ==
    /\ IsTask(s, i, "connect", "rc_start")
    /\ LET tk == tasks[s][i]
           ts == CloseCancels(tasks[s])
       IN  IF SocketOpen(s)
           THEN /\ socket' = Upd(socket, s, [socket[s] EXCEPT !.open = FALSE])
                /\ connecting' = Upd(connecting, s, TRUE)
                /\ tasks' = Upd(tasks, s, SetAt(ts, i, [tk EXCEPT !.pc = "rc_closing"]))
                /\ UNCHANGED <<buffer, zlib, sequence, state>>
           ELSE LET nk == [tk EXCEPT !.url = resume_url[s],
                                     !.pc = IF tk.sleep THEN "c_sleep" ELSE "c_sem"]
                IN  /\ EnterConnect(s, i, nk)
                    /\ tasks' = Upd(tasks, s, SetAt(ts, i, nk))
                    /\ UNCHANGED socket
    /\ UNCHANGED <<connvars, semvars, exited, ready_received, heartbeat_received,
                   session_id, resume_url, dispatch_attrs, dispvars, sent,
                   envvars, received>>

\* close() returns inside reconnect(): state = "Closed", then connect()
ReconnectClosed(s, i) ==
    /\ IsTask(s, i, "connect", "rc_closing")
    /\ LET tk == tasks[s][i]
           nk == [tk EXCEPT !.url = resume_url[s],
                            !.pc = IF SocketOpen(s) THEN "c_start"
                                   ELSE IF tk.sleep THEN "c_sleep" ELSE "c_sem"]
       IN  /\ IF SocketOpen(s)
              THEN /\ state' = Upd(state, s, "Closed")
                   /\ UNCHANGED <<connecting, buffer, zlib, sequence>>
              ELSE EnterConnect(s, i, nk)
           /\ tasks' = Upd(tasks, s, SetAt(tasks[s], i, nk))
    /\ UNCHANGED <<connvars, semvars, exited, ready_received, heartbeat_received,
                   socket, session_id, resume_url, dispatch_attrs, dispvars, sent,
                   envvars, received>>

\* _connect(): entry.  An open socket is closed first and resume forced on.
ConnectStart(s, i) ==
    /\ IsTask(s, i, "connect", "c_start")
    /\ LET tk == tasks[s][i]
       IN  IF SocketOpen(s)
           THEN /\ connecting' = Upd(connecting, s, TRUE)
                /\ buffer' = Upd(buffer, s, <<>>)
                /\ zlib' = Upd(zlib, s, 0)
                /\ socket' = Upd(socket, s, [socket[s] EXCEPT !.open = FALSE])
                /\ tasks' = Upd(tasks, s, SetAt(CloseCancels(tasks[s]), i,
                                                [tk EXCEPT !.pc = "c_closing"]))
                /\ UNCHANGED <<sequence, state>>
           ELSE /\ EnterConnect(s, i, tk)
                /\ tasks' = Upd(tasks, s, SetAt(tasks[s], i,
                        [tk EXCEPT !.pc = IF tk.sleep THEN "c_sleep" ELSE "c_sem"]))
                /\ UNCHANGED socket
    /\ UNCHANGED <<connvars, semvars, exited, ready_received, heartbeat_received,
                   session_id, resume_url, dispatch_attrs, dispvars, sent,
                   envvars, received>>

\* close(0) returns inside _connect: state = "Closed"; resume = True; on
ForcedResume == TRUE

ConnectClosed(s, i) ==
    /\ IsTask(s, i, "connect", "c_closing")
    /\ LET tk == tasks[s][i]
           nk == [tk EXCEPT !.resume = ForcedResume,
                            !.pc = IF tk.sleep THEN "c_sleep" ELSE "c_sem"]
       IN  /\ state' = Upd(state, s, IF nk.sleep THEN "Sleeping before connecting"
                                     ELSE PendingState(nk.resume))
           /\ sequence' = IF ConnectResetsSequence(nk.resume)
                          THEN Upd(sequence, s, NoneInt) ELSE sequence
           /\ tasks' = Upd(tasks, s, SetAt(tasks[s], i, nk))
    /\ UNCHANGED <<connvars, semvars, exited, eventvars, sockvars, session_id,
                   resume_url, dispatch_attrs, dispvars, sent, envvars, received>>

\* asyncio.sleep(sleep_time) is over
ConnectSleepDone(s, i) ==
    /\ IsTask(s, i, "connect", "c_sleep")
    /\ state' = Upd(state, s, PendingState(tasks[s][i].resume))
    /\ tasks' = Upd(tasks, s, SetAt(tasks[s], i, [tasks[s][i] EXCEPT !.pc = "c_sem"]))
    /\ UNCHANGED <<connvars, semvars, exited, eventvars, sockvars, sessvars,
                   dispvars, sent, envvars, received>>

\* async with self.connect_semaphore: the permit is taken
ConnectAcquire(s, i) ==
    /\ IsTask(s, i, "connect", "c_sem")
    /\ connect_semaphore > 0
    /\ connect_semaphore' = connect_semaphore - 1
    /\ state' = Upd(state, s, ConnectingState(tasks[s][i].resume))
    /\ tasks' = Upd(tasks, s, SetAt(tasks[s], i, [tasks[s][i] EXCEPT !.pc = "c_ws"]))
    /\ UNCHANGED <<connvars, identify_semaphore, exited, eventvars, sockvars,
                   sessvars, dispvars, sent, envvars, received>>

\* session.ws_connect() returns a socket (ok) or raises
WsConnect(s, i, ok) ==
    /\ IsTask(s, i, "connect", "c_ws")
    /\ connect_semaphore' = connect_semaphore + 1
    /\ LET tk == tasks[s][i]
       IN  IF ok
           THEN /\ socket[s].id < SocketLimit(s)
                /\ socket' = Upd(socket, s, [id |-> socket[s].id + 1, open |-> TRUE])
                /\ state' = Upd(state, s, "Waiting for HELLO")
                /\ stream' = Upd(stream, s, FreshStream)
                /\ srv' = Upd(srv, s, [srv[s] EXCEPT !.expect = "none",
                                           !.active = FALSE, !.ack_due = FALSE])
                /\ tasks' = Upd(tasks, s, SetAt(tasks[s], i, [tk EXCEPT !.pc = "c_hello"]))
           ELSE /\ tk.attempt < MaxAttempt
                /\ tasks' = Upd(tasks, s, SetAt(tasks[s], i,
                        [tk EXCEPT !.pc = "c_start", !.attempt = tk.attempt + 1,
                                   !.sleep = FALSE]))
                /\ UNCHANGED <<socket, state, stream, srv>>
    /\ UNCHANGED <<connvars, identify_semaphore, exited, eventvars, buffer, zlib,
                   sessvars, dispvars, sent, received>>

\* ------------------------------------------------------- messages we send
\* A faulty identify(): the two entries of "shard" in the wrong order
SwappedIdentifyPayload(s) ==
    [sock |-> socket[s].id, op |-> OP_IDENTIFY, shard |-> <<shard_count, s>>,
     intents |-> intents, session_id |-> NoneStr, seq |-> NoneInt]

\* identify(): lines 759-771 (token and properties are constants)
IdentifyPayload(s) ==
    [sock |-> socket[s].id, op |-> OP_IDENTIFY, shard |-> <<s, shard_count>>,
     intents |-> intents, session_id |-> NoneStr, seq |-> NoneInt]

\* resume(): lines 812-819
ResumePayload(s) ==
    [sock |-> socket[s].id, op |-> OP_RESUME, shard |-> <<0, 0>>, intents |-> 0,
     session_id |-> session_id[s], seq |-> sequence[s]]

\* A faulty heartbeat: the payload is always null
HeartbeatWithoutSequence(s) ==
    [sock |-> socket[s].id, op |-> OP_HEARTBEAT, shard |-> <<0, 0>>, intents |-> 0,
     session_id |-> NoneStr, seq |-> NoneInt]

\* heartbeat(): line 713
HeartbeatPayload(s) ==
    [sock |-> socket[s].id, op |-> OP_HEARTBEAT, shard |-> <<0, 0>>, intents |-> 0,
     session_id |-> NoneStr, seq |-> sequence[s]]

\* send(): the message is written to the open socket and the server reads it
Send(s, c) ==
    /\ sent' = Upd(sent, s, c)
    /\ srv' = Upd(srv, s, SrvAfterRecv(srv[s], c))

\* --------------------------------------------------- _connect: HELLO wait
\* wait_for(self.receive(), 60) raises: the timeout, or the socket is closed
\* (send/receive raise ValueError).  Every exception retries _connect.
ConnectHelloFail(s, i) ==
    /\ IsTask(s, i, "connect", "c_hello")
    /\ tasks[s][i].attempt < MaxAttempt
    /\ tasks' = Upd(tasks, s, SetAt(tasks[s], i,
            [tasks[s][i] EXCEPT !.pc = "c_start", !.attempt = @ + 1, !.sleep = FALSE]))
    /\ UNCHANGED <<connvars, semvars, exited, state, eventvars, sockvars, sessvars,
                   dispvars, sent, envvars, received>>

\* wait_for(self.receive(), 60) reads frame f
ConnectHello(s, i, f) ==
    /\ IsTask(s, i, "connect", "c_hello")
    /\ SocketOpen(s)
    /\ buffer' = Upd(buffer, s, BufferAfter(s, f))
    /\ zlib' = Upd(zlib, s, ZlibAfter(s, f))
    /\ socket' = Upd(socket, s, SocketAfter(s, f))
    /\ stream' = Upd(stream, s, StreamAfter(s, f))
    /\ srv' = Upd(srv, s, SrvAfter(s, f))
    /\ LET tk == tasks[s][i]
           out == RecvOutcome(s, f)
       IN  IF out = "msg" /\ RecvParsed(s, f).op = OP_HELLO
           THEN \* lines 597-607 and 625-632
                /\ ready_received' = Upd(ready_received, s, FALSE)
                /\ connecting' = Upd(connecting, s, TRUE)
                /\ state' = Upd(state, s, "Pending send IDENTIFY/RESUME")
                /\ tasks' = Upd(tasks, s,
                      GC(Unref(Unref(SetAt(tasks[s], i, [tk EXCEPT !.pc = "id_sem"]),
                                     "heartbeat"), "message"))
                      \o <<Ref(Task("heartbeat", "sleep", tk.resume, 1, FALSE)),
                           Ref(Task("message", "recv", FALSE, 1, FALSE))>>)
                /\ Len(tasks'[s]) <= TaskLimit(s)
           ELSE IF out \in {"msg", "none"}
           THEN \* got is None: return; a message without heartbeat_interval raises
                /\ tasks' = Upd(tasks, s, GC(Finish(tasks[s], i)))
                /\ UNCHANGED <<ready_received, connecting, state>>
           ELSE \* except Exception: reattempt
                /\ tk.attempt < MaxAttempt
                /\ tasks' = Upd(tasks, s, SetAt(tasks[s], i,
                        [tk EXCEPT !.pc = "c_start", !.attempt = @ + 1, !.sleep = FALSE]))
                /\ UNCHANGED <<ready_received, connecting, state>>
    /\ UNCHANGED <<connvars, semvars, exited, heartbeat_received, sessvars,
                   dispvars, sent, received>>

\* ------------------------------------------------- send_resume_identify
\* A send_resume_identify spawned by INVALIDATE_SESSION starts: lines 625-631
IdentifyStart(s, i) ==
    /\ IsTask(s, i, "identify", "id_start")
    /\ connecting' = Upd(connecting, s, TRUE)
    /\ ready_received' = Upd(ready_received, s, FALSE)
    /\ state' = Upd(state, s, "Pending send IDENTIFY/RESUME")
    /\ tasks' = Upd(tasks, s, SetAt(tasks[s], i, [tasks[s][i] EXCEPT !.pc = "id_sem"]))
    /\ UNCHANGED <<connvars, semvars, exited, heartbeat_received, sockvars, sessvars,
                   dispvars, sent, envvars, received>>

IsIdentifying(s, i, pc) ==
    \/ IsTask(s, i, "connect", pc)
    \/ IsTask(s, i, "identify", pc)

\* A faulty gate: the permit of the connect semaphore is asked for instead
ConnectPermit == connect_semaphore > 0

\* async with self.identify_semaphore: a permit is free
IdentifyPermit == identify_semaphore > 0

\* The permit is taken and resume()/identify() called: send() raises
\* ValueError on a missing or closed socket (the permit is given back and the
\* task ends with the exception), or writes the message.
IdentifyAcquire(s, i) ==
    /\ IsIdentifying(s, i, "id_sem")
    /\ IdentifyPermit
    /\ LET tk == tasks[s][i]
       IN  IF SocketOpen(s)
           THEN /\ identify_semaphore' = identify_semaphore - 1
                /\ state' = Upd(state, s, "Sending IDENTIFY/RESUME")
                /\ Send(s, IF tk.resume THEN ResumePayload(s) ELSE IdentifyPayload(s))
                /\ tasks' = Upd(tasks, s, SetAt(tasks[s], i, [tk EXCEPT !.pc = "id_sending"]))
           ELSE /\ state' = Upd(state, s, "Sending IDENTIFY/RESUME")
                /\ tasks' = Upd(tasks, s, GC(Finish(tasks[s], i)))
                /\ UNCHANGED <<identify_semaphore, sent, srv>>
    /\ UNCHANGED <<connvars, connect_semaphore, exited, eventvars, sockvars, sessvars,
                   dispvars, stream, received>>

\* A faulty gate: leaving the block does not give the permit back
NoRelease == identify_semaphore

\* send_str() returns: the permit is given back, the wait for READY starts
IdentifyRelease == identify_semaphore + 1

IdentifySent(s, i) ==
    /\ IsIdentifying(s, i, "id_sending")
    /\ identify_semaphore' = IdentifyRelease
    /\ state' = Upd(state, s, "Waiting for READY/RESUMED")
    /\ tasks' = Upd(tasks, s, SetAt(tasks[s], i, [tasks[s][i] EXCEPT !.pc = "id_wait"]))
    /\ UNCHANGED <<connvars, connect_semaphore, exited, eventvars, sockvars, sessvars,
                   dispvars, sent, envvars, received>>

\* ready_received.wait() returns: lines 648-649
IdentifyReady(s, i) ==
    /\ IsIdentifying(s, i, "id_wait")
    /\ ready_received[s] \/ tasks[s][i].woken
    /\ state' = Upd(state, s, "Ready")
    /\ connecting' = Upd(connecting, s, FALSE)
    /\ tasks' = Upd(tasks, s, GC(Finish(tasks[s], i)))
    /\ UNCHANGED <<connvars, semvars, exited, ready_received, heartbeat_received,
                   sockvars, sessvars, dispvars, sent, envvars, received>>

\* A faulty retry: the receive loop of the failed attempt is left running
TimeoutCancelsNothing(ts) == ts

\* self.message_task.cancel() of line 613
TimeoutCancels(ts) == CancelRef(ts, "message")

\* wait_for(ready_received.wait(), 60) times out.  _connect cancels the
\* message task and starts over (lines 608-618); a spawned
\* send_resume_identify ends with the TimeoutError.
IdentifyTimeout(s, i) ==
    /\ IsIdentifying(s, i, "id_wait")
    /\ ~ready_received[s]
    /\ ~tasks[s][i].woken
    /\ LET tk == tasks[s][i]
       IN  IF tk.kind = "connect"
           THEN /\ tk.attempt < MaxAttempt
                /\ tasks' = Upd(tasks, s, SetAt(TimeoutCancels(tasks[s]), i,
                        [tk EXCEPT !.pc = "c_start", !.attempt = @ + 1, !.sleep = FALSE]))
           ELSE tasks' = Upd(tasks, s, GC(Finish(tasks[s], i)))
    /\ UNCHANGED <<connvars, semvars, exited, state, eventvars, sockvars, sessvars,
                   dispvars, sent, envvars, received>>

\* A task awaiting connect() or send_resume_identify() is cancelled at one of
\* the semaphores.  Waiting for the permit it holds none; inside the block
\* __aexit__ runs with the CancelledError and gives the permit back (lines
\* 91-94).  No `except Exception` takes a CancelledError: the task ends.
GateCancelled(s, i) ==
    /\ s \in shards
    /\ ~exited
    /\ i \in DOMAIN tasks[s]
    /\ tasks[s][i].kind \in {"connect", "identify"}
    /\ tasks[s][i].pc \in {"c_sem", "c_ws", "id_sem", "id_sending"}
    /\ connect_semaphore' =
            IF tasks[s][i].pc = "c_ws" THEN connect_semaphore + 1 ELSE connect_semaphore
    /\ identify_semaphore' =
            IF tasks[s][i].pc = "id_sending" THEN IdentifyRelease ELSE identify_semaphore
    /\ tasks' = Upd(tasks, s, GC(Finish(tasks[s], i)))
    /\ UNCHANGED <<connvars, exited, state, eventvars, sockvars, sessvars, dispvars,
                   sent, envvars, received>>

\* ------------------------------------------------------------- heartbeat
\* `await self.send(HEARTBEAT, self.sequence)` of task i, then the wait for
\* the acknowledgement starts; on a missing or closed socket send() raises
\* ValueError: connect(resume=True) is spawned and the loop ends (736-747).
HeartbeatSend(s, i, ba) ==
    IF SocketOpen(s)
    THEN /\ srv[s].beats < BeatLimit(s)
         /\ Send(s, HeartbeatPayload(s))
         /\ tasks' = Upd(tasks, s, SetAt(tasks[s], i,
                [tasks[s][i] EXCEPT !.pc = "wait", !.ba = ba, !.cancel = FALSE]))
    ELSE /\ tasks' = Upd(tasks, s, GC(Finish(tasks[s], i))
                \o <<Task("connect", "c_start", TRUE, 1, FALSE)>>)
         /\ Len(tasks'[s]) <= TaskLimit(s)
         /\ UNCHANGED <<sent, srv>>

\* asyncio.sleep(wait / 1000) is over (or skip_first_wait): first beat attempt
HeartbeatBeat(s, i) ==
    /\ \/ IsTask(s, i, "heartbeat", "sleep")
       \/ IsTask(s, i, "heartbeat", "start")
    /\ HeartbeatSend(s, i, 0)
    /\ UNCHANGED <<connvars, semvars, exited, state, eventvars, sockvars, sessvars,
                   dispvars, stream, received>>

\* heartbeat_received.wait() returns: break, wait = heartbeat_interval
HeartbeatAcked(s, i) ==
    /\ IsTask(s, i, "heartbeat", "wait")
    /\ heartbeat_received[s]
    /\ tasks' = Upd(tasks, s, SetAt(tasks[s], i,
            [tasks[s][i] EXCEPT !.pc = "sleep", !.ba = 0]))
    /\ UNCHANGED <<connvars, semvars, exited, state, eventvars, sockvars, sessvars,
                   dispvars, sent, envvars, received>>

\* wait_for(heartbeat_received.wait(), timeout=10) times out: it raises
\* asyncio.TimeoutError, which neither `except asyncio.CancelledError` nor
\* `except ValueError` catches, so the heartbeat task ends with it.
HeartbeatTimeout(s, i) ==
    /\ IsTask(s, i, "heartbeat", "wait")
    /\ ~heartbeat_received[s]
    /\ tasks' = Upd(tasks, s, GC(Finish(tasks[s], i)))
    /\ UNCHANGED <<connvars, semvars, exited, state, eventvars, sockvars, sessvars,
                   dispvars, sent, envvars, received>>

\* The CancelledError of a Task.cancel() is delivered to heartbeat task i.
\* In the sleep (or before its first step) the task returns.  In the wait
\* for the acknowledgement `except asyncio.CancelledError` takes it: up to
\* beat_attempt 5 the loop continues with the next beat, after that
\* connect(resume=True) is spawned and the loop ends (lines 715-735).
HeartbeatCancelled(s, i) ==
    /\ s \in shards
    /\ ~exited
    /\ i \in DOMAIN tasks[s]
    /\ tasks[s][i].kind = "heartbeat"
    /\ tasks[s][i].cancel
    /\ tasks[s][i].pc # "done"
    /\ LET tk == tasks[s][i]
       IN  IF tk.pc \in {"sleep", "start"}
           THEN /\ tasks' = Upd(tasks, s, GC(Finish(tasks[s], i)))
                /\ UNCHANGED <<sent, srv>>
           ELSE IF tk.ba <= BeatAttemptRetryMax
           THEN HeartbeatSend(s, i, tk.ba + 1)
           ELSE /\ tasks' = Upd(tasks, s, GC(Finish(tasks[s], i))
                       \o <<Task("connect", "c_start", TRUE, 1, FALSE)>>)
                /\ Len(tasks'[s]) <= TaskLimit(s)
                /\ UNCHANGED <<sent, srv>>
    /\ UNCHANGED <<connvars, semvars, exited, state, eventvars, sockvars, sessvars,
                   dispvars, stream, received>>

\* ------------------------------------------------------- message_handler
\* A handler task created by create_task(self.handle_dispatch(...)).
Handler(s, m) ==
    [idx |-> Len(received[s]) + 1, t |-> m.t, s |-> m.s, d |-> m.d]

\* ready_received.set() releases the tasks waiting in ready_received.wait()
Wake(ts) ==
    [j \in DOMAIN ts |->
        IF ts[j].pc = "id_wait" THEN [ts[j] EXCEPT !.woken = TRUE] ELSE ts[j]]

\* messages(): the next receive() of the loop.  On a missing or closed socket
\* receive() raises ValueError, `except Exception` spawns
\* reconnect(resume=False) and the loop ends (lines 335-340).
NextReceive(s, ts, i, open) ==
    IF open THEN SetAt(ts, i, [ts[i] EXCEPT !.pc = "recv"])
    ELSE GC(Finish(ts, i)) \o <<Task("connect", "rc_start", FALSE, 1, FALSE)>>

\* A faulty scheduling: the new task goes to the front of the ready queue
EnqueueFront(q, h) == <<h>> \o q

\* asyncio.create_task(...): the new task goes to the end of the event loop's
\* ready queue (lines 889-893)
Enqueue(q, h) == Append(q, h)

\* The sequence the shard keeps after a DISPATCH with sequence q: line 888
SequenceAfterDispatch(s, q) == q

\* A faulty RECONNECT handling: the session is given up
ReconnectFresh == FALSE

\* reconnect(self, resume=True), called without argument at line 898
ReconnectResume == TRUE

\* receive() inside messages() reads frame f; message_handler acts on it.
MessageReceive(s, i, f) ==
    /\ IsTask(s, i, "message", "recv")
    /\ SocketOpen(s)
    /\ buffer' = Upd(buffer, s, BufferAfter(s, f))
    /\ zlib' = Upd(zlib, s, ZlibAfter(s, f))
    /\ socket' = Upd(socket, s, SocketAfter(s, f))
    /\ stream' = Upd(stream, s, StreamAfter(s, f))
    /\ srv' = Upd(srv, s, SrvAfter(s, f))
    /\ LET out == RecvOutcome(s, f)
           m == IF out = "msg" THEN RecvParsed(s, f) ELSE EmptyM
           tk == tasks[s][i]
           ts == tasks[s]
           isready == m.op = OP_DISPATCH /\ m.t \in {"READY", "RESUMED"}
       IN  /\ exited' = (out = "GatewayAuthenticationFailed")
           /\ heartbeat_received' =
                IF m.op = OP_HEARTBEAT_ACK THEN Upd(heartbeat_received, s, TRUE)
                ELSE heartbeat_received
           /\ ready_received' =
                IF isready THEN Upd(ready_received, s, TRUE) ELSE ready_received
           /\ sequence' =
                IF m.op = OP_DISPATCH
                THEN Upd(sequence, s, SequenceAfterDispatch(s, m.s)) ELSE sequence
           /\ pending' =
                IF m.op = OP_DISPATCH
                THEN Upd(pending, s, Enqueue(pending[s], Handler(s, m))) ELSE pending
           /\ received' =
                IF m.op = OP_DISPATCH
                THEN Upd(received, s, Append(received[s],
                        [t |-> m.t, s |-> m.s, sock |-> socket[s].id]))
                ELSE received
           /\ Len(pending'[s]) <= MaxPending
           /\ tasks' = Upd(tasks, s,
                CASE out = "none" -> GC(Finish(ts, i))
                  [] out \in {"GatewayClose", "GatewayClosed"} ->
                        GC(Finish(ts, i)) \o <<Task("connect", "rc_start", TRUE, 1, FALSE)>>
                  [] out = "GatewayAuthenticationFailed" -> ts
                  [] out = "JSONDecodeError" ->
                        GC(Finish(ts, i)) \o <<Task("connect", "rc_start", FALSE, 1, FALSE)>>
                  [] out = "msg" /\ m.op = OP_HEARTBEAT ->
                        GC(Unref(CancelRef(ts, "heartbeat"), "heartbeat"))
                        \o <<Ref(Task("heartbeat", "start", FALSE, 1, FALSE))>>
                  [] out = "msg" /\ m.op = OP_RECONNECT ->
                        GC(Finish(ts, i))
                        \o <<Task("connect", "rc_start", ReconnectResume, 1, FALSE)>>
                  [] out = "msg" /\ m.op = OP_INVALIDATE_SESSION ->
                        SetAt(ts, i, [tk EXCEPT !.pc = "inv_sleep", !.resume = m.d.flag])
                  [] out = "msg" /\ isready -> Wake(ts)
                  [] OTHER -> ts)
           /\ Len(tasks'[s]) <= TaskLimit(s)
    /\ UNCHANGED <<connvars, semvars, state, connecting, session_id, resume_url,
                   dispatch_attrs, suspended, cache, started, results, sent>>

\* A faulty INVALIDATE_SESSION handling: always a fresh IDENTIFY
AlwaysIdentify(flag) == FALSE

\* asyncio.sleep(5) after INVALIDATE_SESSION is over: send_resume_identify is
\* spawned with resume = the payload, and the loop goes on (lines 912-915).
InvalidateResumes(flag) == flag

MessageInvalidated(s, i) ==
    /\ IsTask(s, i, "message", "inv_sleep")
    /\ tasks' = Upd(tasks, s,
            NextReceive(s, tasks[s], i, SocketOpen(s))
            \o <<Task("identify", "id_start", InvalidateResumes(tasks[s][i].resume),
                      1, FALSE)>>)
    /\ Len(tasks'[s]) <= TaskLimit(s)
    /\ UNCHANGED <<connvars, semvars, exited, state, eventvars, sockvars, sessvars,
                   dispvars, sent, envvars, received>>

\* The CancelledError of message_task.cancel() is delivered: it is no
\* Exception, so messages() lets it through and the task ends.
MessageCancelled(s, i) ==
    /\ s \in shards
    /\ ~exited
    /\ i \in DOMAIN tasks[s]
    /\ tasks[s][i].kind = "message"
    /\ tasks[s][i].cancel
    /\ tasks[s][i].pc # "done"
    /\ tasks' = Upd(tasks, s, GC(Finish(tasks[s], i)))
    /\ UNCHANGED <<connvars, semvars, exited, state, eventvars, sockvars, sessvars,
                   dispvars, sent, envvars, received>>

\* ----------------------------------------------------------- GatewayDispatch
GuildIds == {1}

ChannelIds == {1}

\* oid names the Guild object: the number of the handler call that built it.
\* channels: the keys of guild._channels.
NoGuild == [present |-> FALSE, ver |-> 0, members |-> {}, oid |-> 0, channels |-> {}]

\* A Channel object: ver is the version of the payload it was built from,
\* goid the Guild object channel.guild refers to (0: it is not a Guild)
NoChannel == [present |-> FALSE, ver |-> 0, goid |-> 0]

\* The "d" of a channel event: gid 0 stands for a payload without "guild_id"
ChannelPayload(cid, gid, ver) ==
    [flag |-> FALSE, gid |-> gid, ver |-> ver, has_members |-> FALSE,
     members |-> {}, member |-> 0, cid |-> cid]

\* dict[key] = value on a dict kept as a set of <<key, value>> items
DictSet(d, k, v) == {p \in d : p[1] # k} \cup {<<k, v>>}

Keys(d) == {p[1] : p \in d}

\* Guild(state, data) followed by guild._sync(data): the members of the new
\* object are those of the payload, none if it has no member data.
GuildOf(d) ==
    [present |-> TRUE, ver |-> d.ver,
     members |-> IF d.has_members THEN d.members ELSE {},
     oid |-> 0, channels |-> {}]

\* Guild(state=..., data=...) of handler call idx is a new object
Built(c, gid, idx) == [c EXCEPT !.guilds[gid].oid = idx]

\* _handle_guild_create after guild._sync: lines 162-172
HandleGuildCreate(c, d) ==
    [c EXCEPT !.guilds[d.gid] = GuildOf(d),
              !.users = @ \cup Keys(GuildOf(d).members)]

\* A faulty merge: the members of the new payload replace the cached ones
PayloadMembers(current, guild) == guild.members

\* guild._members = current._members: lines 177-180
MergedMembers(current, guild) ==
    IF current.present THEN current.members ELSE guild.members

\* _handle_guild_update after guild._sync: lines 177-186
HandleGuildUpdate(c, d) ==
    [c EXCEPT !.guilds[d.gid] =
        [GuildOf(d) EXCEPT !.members = MergedMembers(c.guilds[d.gid], GuildOf(d))]]

\* _handle_typing with a member payload: lines 191-207
HandleTyping(c, d) ==
    IF d.member # 0 /\ c.guilds[d.gid].present
    THEN [c EXCEPT !.guilds[d.gid].members = DictSet(@, d.member, d.ver),
                   !.users = @ \cup {d.member}]
    ELSE c

\* channel_builder(state, data), with channel.guild = guild when guild is given
ChannelOf(d, guild) == [present |-> TRUE, ver |-> d.ver, goid |-> guild.oid]

\* The guild a channel payload names is not in the cache (lines 249-256, 287-294)
GuildMissing(c, d) == d.gid # 0 /\ ~c.guilds[d.gid].present

\* _handle_channel_generic: lines 247-260
HandleChannelGeneric(c, d) ==
    IF d.gid = 0 \/ GuildMissing(c, d) THEN c
    ELSE [c EXCEPT !.guilds[d.gid].channels = @ \cup {d.cid},
                   !.channels[d.cid] = ChannelOf(d, c.guilds[d.gid])]

\* A faulty delete: the channel is always built from the payload
RebuiltChannel(c, d) ==
    IF GuildMissing(c, d) THEN NoChannel
    ELSE ChannelOf(d, IF d.gid = 0 THEN NoGuild ELSE c.guilds[d.gid])

\* The channel _handle_channel_delete returns: the one popped from the cache
\* (line 279) or one built from the payload (286-296); NoChannel for None
DeletedChannel(c, d) ==
    IF c.channels[d.cid].present THEN c.channels[d.cid]
    ELSE IF GuildMissing(c, d) THEN NoChannel
    ELSE ChannelOf(d, IF d.gid = 0 THEN NoGuild ELSE c.guilds[d.gid])

\* channel.guild._channels.pop(channel_id, None) on the Guild object oid: the
\* cached guild if it is that object, else an object the cache no longer holds
PopFromGuild(guilds, oid, cid) ==
    [g \in DOMAIN guilds |->
        IF guilds[g].present /\ oid # 0 /\ guilds[g].oid = oid
        THEN [guilds[g] EXCEPT !.channels = @ \ {cid}] ELSE guilds[g]]

\* _handle_channel_delete: lines 274-296
HandleChannelDelete(c, d) ==
    IF c.channels[d.cid].present
    THEN [c EXCEPT !.channels[d.cid] = NoChannel,
                   !.guilds = PopFromGuild(@, c.channels[d.cid].goid, d.cid)]
    ELSE c

\* The handlers of EVENT_HANDLER (lines 54-114) that the events of the model use
EventHandler ==
    {"GUILD_CREATE", "GUILD_UPDATE", "MESSAGE_DELETE", "TYPING_START",
     "CHANNEL_CREATE", "CHANNEL_DELETE"}

\* self.EVENT_HANDLER.get(event_name) is not None: `await coro(data)` runs
HandlerRan(h) == h.t \in EventHandler

\* A faulty lookup: an event without a handler is given to the guild handler
UnhandledAsCreate(c, h) == HandleGuildCreate(c, h.d)

\* coro is None: log.warning("Failed to parse event ...") and nothing else
\* (lines 132-136)
Unhandled(c, h) == c

\* handle_dispatch: what the handler of event h does to the cache
CacheAfter(c, h) ==
    CASE h.t = "READY" -> c
      [] ~HandlerRan(h) -> Unhandled(c, h)
      [] h.t = "GUILD_CREATE" -> Built(HandleGuildCreate(c, h.d), h.d.gid, h.idx)
      [] h.t = "GUILD_UPDATE" -> Built(HandleGuildUpdate(c, h.d), h.d.gid, h.idx)
      [] h.t = "TYPING_START" -> HandleTyping(c, h.d)
      [] h.t = "CHANNEL_CREATE" -> HandleChannelGeneric(c, h.d)
      [] h.t = "CHANNEL_DELETE" -> HandleChannelDelete(c, h.d)
      [] OTHER -> c

\* handle_dispatch of READY sets resume_url and session_id on the
\* GatewayDispatch object (self is the dispatch, lines 124-129)
ReadySessionId == "session"

ReadyResumeUrl == "resume"

AttrsAfter(a, h) ==
    IF h.t = "READY"
    THEN [session_id |-> ReadySessionId, resume_url |-> ReadyResumeUrl] ELSE a

\* The events after whose handler handle_dispatch returns (lines 140-150)
QuietEvents ==
    {"PRESENCE_UPDATE", "GUILD_CREATE", "MESSAGE_CREATE", "VOICE_STATE_UPDATE",
     "READY", "TYPING_START", "CHANNEL_UPDATE", "MESSAGE_UPDATE", "MESSAGE_DELETE"}

\* A (normalized_name, entity) pair; the entity is named by its id
Ret(name, entity) == [name |-> name, entity |-> entity]

NoneRet == Ret(NoneStr, 0)

\* What the handler coroutine of event h returns when the cache is c
HandlerReturn(c, h) ==
    CASE h.t = "GUILD_CREATE" -> Ret("guild_create", h.d.gid)
      [] h.t = "GUILD_UPDATE" -> Ret("guild_update", h.d.gid)
      [] h.t = "MESSAGE_DELETE" -> Ret("message_delete", 0)
      [] h.t = "TYPING_START" ->
            IF h.d.member # 0 /\ c.guilds[h.d.gid].present
            THEN Ret("typing", h.d.member) ELSE NoneRet
      [] h.t = "CHANNEL_CREATE" ->
            IF GuildMissing(c, h.d) THEN NoneRet ELSE Ret("channel_create", h.d.cid)
      [] h.t = "CHANNEL_DELETE" ->
            IF DeletedChannel(c, h.d) = NoChannel THEN NoneRet
            ELSE Ret("channel_delete", h.d.cid)
      [] OTHER -> NoneRet

\* The Channel object in the pair _handle_channel_delete returns
ReturnedChannel(c, h) ==
    IF h.t = "CHANNEL_DELETE" THEN DeletedChannel(c, h.d) ELSE NoChannel

\* What GatewayDispatch.handle_dispatch returns: `return None` for READY and
\* for the events of lines 140-149; `await coro(data)` drops the handler's value
HandleDispatchReturn(c, h) == NoneRet

\* For every other event handle_dispatch goes on to lines 151-157, where
\* self.parent is the GatewayShard (gateway.py 226), which has no attribute
\* "gateway": the f-string of line 156 raises AttributeError.
Raises(h) == h.t # "READY" /\ h.t \notin QuietEvents

\* The record of a finished handle_dispatch call: handler is the value of the
\* handler coroutine, ret the value handle_dispatch returned (NoneRet also
\* when it raised and returned nothing)
Result(c, h) ==
    [idx |-> h.idx, t |-> h.t, handler |-> HandlerReturn(c, h),
     ret |-> HandleDispatchReturn(c, h), raised |-> Raises(h), ran |-> HandlerRan(h),
     chan |-> ReturnedChannel(c, h)]

\* A faulty handle_dispatch: the error of a handler ends the receive task
EscalatedError(ts, raised) == IF raised THEN CancelRef(ts, "message") ELSE ts

\* GatewayShard.handle_dispatch: `except Exception` logs the error of the
\* handler task and drops it (gateway.py 850-857)
AfterHandler(ts, raised) == ts

\* the handlers that await guild._sync before they touch the cache
Suspends(h) == h.t \in {"GUILD_CREATE", "GUILD_UPDATE"}

\* The event loop starts the oldest handler task not yet started; it runs to
\* its end, or (susp) to the await of guild._sync.
HandlerStart(s, susp) ==
    /\ s \in shards
    /\ ~exited
    /\ pending[s] # <<>>
    /\ LET h == Head(pending[s])
       IN  /\ pending' = Upd(pending, s, Tail(pending[s]))
           /\ started' = Upd(started, s, Append(started[s], [idx |-> h.idx, t |-> h.t, s |-> h.s]))
           /\ IF susp
              THEN /\ Suspends(h)
                   /\ suspended' = Upd(suspended, s, suspended[s] \cup {h})
                   /\ UNCHANGED <<cache, dispatch_attrs, results, tasks>>
              ELSE /\ cache' = CacheAfter(cache, h)
                   /\ dispatch_attrs' = Upd(dispatch_attrs, s, AttrsAfter(dispatch_attrs[s], h))
                   /\ results' = Upd(results, s, results[s] \cup {Result(cache, h)})
                   /\ tasks' = Upd(tasks, s, AfterHandler(tasks[s], Raises(h)))
                   /\ UNCHANGED suspended
    /\ UNCHANGED <<connvars, semvars, exited, state, eventvars, sockvars, sequence,
                   session_id, resume_url, sent, envvars, received>>

\* guild._sync returns in a suspended handler: the rest of the handler runs
HandlerResume(s, h) ==
    /\ s \in shards
    /\ ~exited
    /\ h \in suspended[s]
    /\ suspended' = Upd(suspended, s, suspended[s] \ {h})
    /\ cache' = CacheAfter(cache, h)
    /\ results' = Upd(results, s, results[s] \cup {Result(cache, h)})
    /\ tasks' = Upd(tasks, s, AfterHandler(tasks[s], Raises(h)))
    /\ UNCHANGED <<connvars, semvars, exited, state, eventvars, sockvars, sessvars,
                   pending, started, sent, envvars, received>>

\* --------------------------------------- GatewayShard.close() by the owner
\* close(): the two cancels (lines 663-666); an open socket is closed, which
\* suspends close() in `await socket.close()`; otherwise state = "Closed".
CloseStart(s) ==
    /\ s \in shards
    /\ ~exited
    /\ closing[s] = "no"
    /\ tasks' = Upd(tasks, s, CloseCancels(tasks[s]))
    /\ IF SocketOpen(s)
       THEN /\ socket' = Upd(socket, s, [socket[s] EXCEPT !.open = FALSE])
            /\ closing' = Upd(closing, s, "closing")
            /\ UNCHANGED state
       ELSE /\ state' = Upd(state, s, "Closed")
            /\ closing' = Upd(closing, s, "closed")
            /\ UNCHANGED socket
    /\ UNCHANGED <<shards, shard_count, intents, max_concurrency, chunks, semvars,
                   exited, eventvars, buffer, zlib, sessvars, dispvars, sent, envvars,
                   received>>

\* socket.close() returns inside close(): state = "Closed" (line 672)
CloseDone(s) ==
    /\ s \in shards
    /\ ~exited
    /\ closing[s] = "closing"
    /\ state' = Upd(state, s, "Closed")
    /\ closing' = Upd(closing, s, "closed")
    /\ UNCHANGED <<shards, shard_count, intents, max_concurrency, chunks, semvars,
                   exited, eventvars, sockvars, sessvars, tasks, dispvars, sent, envvars,
                   received>>

\* ------------------------------------------------ GatewayShard.running
\* heartbeat_task / message_task is None
NoTask(s, kind) ==
    ~\E i \in DOMAIN tasks[s] : tasks[s][i].kind = kind /\ tasks[s][i].ref

\* heartbeat_task / message_task is a task and not task.done()
Outstanding(s, kind) ==
    \E i \in DOMAIN tasks[s] :
        tasks[s][i].kind = kind /\ tasks[s][i].ref /\ tasks[s][i].pc # "done"

\* The property running: lines 280-303
Running(s) ==
    \/ NoTask(s, "heartbeat")
    \/ Outstanding(s, "heartbeat")
    \/ socket[s].id = 0
    \/ socket[s].open
    \/ NoTask(s, "message")
    \/ Outstanding(s, "message")
    \/ connecting[s]

\* ------------------------------------------ GatewayShard.change_presence
\* The PRESENCE message of lines 840-848 (activities and status left out)
PresencePayload(s) ==
    [sock |-> socket[s].id, op |-> OP_PRESENCE, shard |-> <<0, 0>>, intents |-> 0,
     session_id |-> NoneStr, seq |-> NoneInt]

\* line 836
PresenceSkipped(s) == socket[s].id = 0 \/ ~socket[s].open \/ ~ready_received[s]

ChangePresence(s) ==
    /\ s \in shards
    /\ ~exited
    /\ IF PresenceSkipped(s)
       THEN UNCHANGED <<sent, srv>>
       ELSE Send(s, PresencePayload(s))
    /\ UNCHANGED <<connvars, semvars, exited, state, eventvars, sockvars, sessvars,
                   tasks, dispvars, stream, received>>

\* --------------------------------------------- GatewayShard.chunk_guild
\* The nonces a caller passes; NoneStr is a call without nonce
Nonces == {"a"}

\* No entry under a nonce in chunk_counter, chunk_event and chunk_groups
NoChunk == [present |-> FALSE, counter |-> 0, event |-> FALSE, groups |-> {}]

\* lines 796-798: the three entries a call with a nonce creates
NewChunk == [present |-> TRUE, counter |-> 0, event |-> FALSE, groups |-> {}]

\* The REQUEST_MEMBERS message of lines 799-802 (guild, limit, query left out)
ChunkPayload(s) ==
    [sock |-> socket[s].id, op |-> OP_REQUEST_MEMBERS, shard |-> <<0, 0>>,
     intents |-> 0, session_id |-> NoneStr, seq |-> NoneInt]

\* chunk_guild(guild_id, nonce=n): the entries are made, then send() writes
\* the request or raises ValueError on a missing or closed socket.
ChunkGuild(s, n) ==
    /\ s \in shards
    /\ ~exited
    /\ chunks' = IF n \in Nonces
                 THEN Upd(chunks, s, [chunks[s] EXCEPT ![n] = NewChunk])
                 ELSE chunks
    /\ IF SocketOpen(s)
       THEN Send(s, ChunkPayload(s))
       ELSE UNCHANGED <<sent, srv>>
    /\ UNCHANGED <<shards, shard_count, intents, max_concurrency, closing, semvars,
                   exited, state, eventvars, sockvars, sessvars, tasks, dispvars,
                   stream, received>>

\* ------------------------------------------------------------------- Init
\* GatewayConnection.__init__ and, per shard id, GatewayShard.__init__
Init ==
    /\ shards = {}
    /\ shard_count = 1
    /\ intents = 0
    /\ max_concurrency = 0
    /\ closing = [s \in ShardIds |-> "no"]
    /\ identify_semaphore = 0
    /\ connect_semaphore = 0
    /\ exited = FALSE
    /\ state = [s \in ShardIds |-> "Closed"]
    /\ connecting = [s \in ShardIds |-> FALSE]
    /\ ready_received = [s \in ShardIds |-> FALSE]
    /\ heartbeat_received = [s \in ShardIds |-> FALSE]
    /\ socket = [s \in ShardIds |-> [id |-> 0, open |-> FALSE]]
    /\ buffer = [s \in ShardIds |-> <<>>]
    /\ zlib = [s \in ShardIds |-> 0]
    /\ sequence = [s \in ShardIds |-> NoneInt]
    /\ session_id = [s \in ShardIds |-> NoneStr]
    /\ resume_url = [s \in ShardIds |-> "base"]
    /\ dispatch_attrs = [s \in ShardIds |-> [session_id |-> NoneStr, resume_url |-> NoneStr]]
    /\ tasks = [s \in ShardIds |-> <<>>]
    /\ pending = [s \in ShardIds |-> <<>>]
    /\ suspended = [s \in ShardIds |-> {}]
    /\ sent = [s \in ShardIds |-> NoMsg]
    /\ chunks = [s \in ShardIds |-> [n \in Nonces |-> NoChunk]]
    /\ cache = [guilds |-> [g \in GuildIds |-> NoGuild], users |-> {},
                channels |-> [k \in ChannelIds |-> NoChannel]]
    /\ stream = [s \in ShardIds |-> FreshStream]
    /\ srv = [s \in ShardIds |-> NoSession]
    /\ received = [s \in ShardIds |-> <<>>]
    /\ started = [s \in ShardIds |-> <<>>]
    /\ results = [s \in ShardIds |-> {}]

TaskIds == 1 .. MaxDeepTasks

\* ------------------------------------------- Spec: the life of one shard
\* Shard 0 of 1 or shard 3 of 8 connects, identifies, is invalidated, closed and reconnected;
\* connects fail and waits time out.  The heartbeat interval does not elapse
\* (SpecHeartbeat is about the heartbeat loop).
\* An event without a cache handler effect.
PlainEvents == {[t |-> "MESSAGE_DELETE", d |-> NoPayload]}

WholeFrames(s) ==
    {f \in Frames(s, PlainEvents, {5}) : f.m.op # OP_HEARTBEAT} \cup ControlFrames

Connect1 ==
    \E cfg \in {<<{0}, 1, 0, FALSE>>, <<{3}, 8, 513, TRUE>>} :
        ConnectionConnect(cfg[1], cfg[2], 1, cfg[3], cfg[4])

ShardStep(s, i) ==
    \/ ReconnectStart(s, i)
    \/ ReconnectClosed(s, i)
    \/ ConnectStart(s, i)
    \/ ConnectClosed(s, i)
    \/ ConnectSleepDone(s, i)
    \/ ConnectAcquire(s, i)
    \/ \E ok \in BOOLEAN : WsConnect(s, i, ok)
    \/ ConnectHelloFail(s, i)
    \/ IdentifyStart(s, i)
    \/ IdentifyAcquire(s, i)
    \/ IdentifySent(s, i)
    \/ IdentifyReady(s, i)
    \/ IdentifyTimeout(s, i)
    \/ HeartbeatCancelled(s, i)
    \/ MessageInvalidated(s, i)
    \/ MessageCancelled(s, i)

Next ==
    \/ Connect1
    \/ \E s \in ShardIds, i \in TaskIds : ShardStep(s, i)
    \/ \E s \in ShardIds, i \in TaskIds : \E f \in WholeFrames(s) : ConnectHello(s, i, f)
    \/ \E s \in ShardIds, i \in TaskIds : \E f \in WholeFrames(s) : MessageReceive(s, i, f)
    \/ \E s \in ShardIds : HandlerStart(s, FALSE)

Spec == Init /\ [][Next]_vars

\* ------------------------------- SpecDecoder: frames cut at every boundary
\* The server sends HELLO, READY and events; the socket hands their bytes out
\* in frames of every length.  No timer fires and no connect fails.
AllSplits == 1 .. 5

DecoderFrames(s) ==
    {f \in Frames(s, PlainEvents, AllSplits) : f.m.op \in {NoneInt, OP_HELLO, OP_DISPATCH}}

ConnectDecoder == ConnectionConnect({0}, 1, 1, 0, FALSE)

HappyStep(s, i) ==
    \/ ConnectStart(s, i)
    \/ ConnectAcquire(s, i)
    \/ WsConnect(s, i, TRUE)
    \/ IdentifyAcquire(s, i)
    \/ IdentifySent(s, i)
    \/ IdentifyReady(s, i)

NextDecoder ==
    \/ ConnectDecoder
    \/ \E s \in ShardIds, i \in TaskIds : HappyStep(s, i)
    \/ \E s \in ShardIds, i \in TaskIds : \E f \in DecoderFrames(s) : ConnectHello(s, i, f)
    \/ \E s \in ShardIds, i \in TaskIds : \E f \in DecoderFrames(s) : MessageReceive(s, i, f)
    \/ \E s \in ShardIds : HandlerStart(s, FALSE)

SpecDecoder == Init /\ [][NextDecoder]_vars

\* ------------------------------------- SpecCache: events that use the cache
GuildEvents ==
    {[t |-> "GUILD_CREATE", d |-> Payload(FALSE, 1, v, TRUE, {<<1, v>>}, 0)] :
        v \in 1 .. MaxGuildVer}
    \cup {[t |-> "GUILD_UPDATE", d |-> Payload(FALSE, 1, v, FALSE, {}, 0)] :
        v \in 1 .. MaxGuildVer}
    \cup {[t |-> "TYPING_START", d |-> Payload(FALSE, 1, v, FALSE, {}, 2)] :
        v \in 1 .. MaxGuildVer}

\* Events whose names have no entry in EVENT_HANDLER: GUILD_DELETE is not in
\* the list of lines 140-149, VOICE_STATE_UPDATE is
UnmappedEvents ==
    {[t |-> "GUILD_DELETE", d |-> Payload(FALSE, 1, 1, TRUE, {<<3, 1>>}, 0)],
     [t |-> "VOICE_STATE_UPDATE", d |-> Payload(FALSE, 1, 1, FALSE, {}, 2)]}

CacheFrames(s) ==
    {f \in Frames(s, GuildEvents \cup UnmappedEvents, {5}) :
        f.m.op \in {OP_HELLO, OP_DISPATCH}}

NextCache ==
    \/ ConnectDecoder
    \/ \E s \in ShardIds, i \in TaskIds : HappyStep(s, i)
    \/ \E s \in ShardIds, i \in TaskIds : \E f \in CacheFrames(s) : ConnectHello(s, i, f)
    \/ \E s \in ShardIds, i \in TaskIds : \E f \in CacheFrames(s) : MessageReceive(s, i, f)
    \/ \E s \in ShardIds, susp \in BOOLEAN : HandlerStart(s, susp)
    \/ \E s \in ShardIds : \E h \in suspended[s] : HandlerResume(s, h)

SpecCache == Init /\ [][NextCache]_vars

\* --------------------------------- SpecChannel: channels come and go
\* A guild is created or updated, a channel of it is created and deleted;
\* the delete payload is newer than the cached channel.
ChannelEvents ==
    {[t |-> "GUILD_CREATE", d |-> Payload(FALSE, 1, 1, FALSE, {}, 0)],
     [t |-> "GUILD_UPDATE", d |-> Payload(FALSE, 1, 2, FALSE, {}, 0)],
     [t |-> "CHANNEL_CREATE", d |-> ChannelPayload(1, 1, 1)],
     [t |-> "CHANNEL_DELETE", d |-> ChannelPayload(1, 1, 2)],
     [t |-> "CHANNEL_DELETE", d |-> ChannelPayload(1, 0, 2)]}

\* One more event when the MaxServerMsgs messages of ServerMsgs are spent
LateFrames(s) ==
    IF /\ stream[s].wire = <<>>
       /\ stream[s].hello
       /\ srv[s].active
       /\ srv[s].n >= MaxServerMsgs
       /\ srv[s].n < MaxChannelMsgs
    THEN {Frame("BINARY", Dispatch(e.t, srv[s].seq + 1, e.d), 5) : e \in ChannelEvents}
    ELSE {}

ChannelFrames(s) ==
    {f \in Frames(s, ChannelEvents, {5}) : f.m.op \in {OP_HELLO, OP_DISPATCH}}
    \cup LateFrames(s)

NextChannel ==
    \/ ConnectDecoder
    \/ \E s \in ShardIds, i \in TaskIds : HappyStep(s, i)
    \/ \E s \in ShardIds, i \in TaskIds : \E f \in ChannelFrames(s) : ConnectHello(s, i, f)
    \/ \E s \in ShardIds, i \in TaskIds : \E f \in ChannelFrames(s) : MessageReceive(s, i, f)
    \/ \E s \in ShardIds, susp \in BOOLEAN : HandlerStart(s, susp)
    \/ \E s \in ShardIds : \E h \in suspended[s] : HandlerResume(s, h)

SpecChannel == Init /\ [][NextChannel]_vars

\* ----------------------- SpecRelease: leaving the gates by error or cancel
\* Two shards behind an identify gate of one permit.  A connect may fail, the
\* socket may fail before IDENTIFY is sent, and a task may be cancelled
\* while it waits for a gate or is inside it.
ReleaseFrames(s) ==
    {f \in Frames(s, PlainEvents, {5}) : f.m.op \in {OP_HELLO, OP_DISPATCH}}
    \cup {Frame("ERROR", EmptyM, 0)}

ConnectRelease == ConnectionConnect({}, 2, 1, 0, FALSE)

ReleaseStep(s, i) ==
    \/ ConnectStart(s, i)
    \/ ConnectAcquire(s, i)
    \/ \E ok \in BOOLEAN : WsConnect(s, i, ok)
    \/ IdentifyAcquire(s, i)
    \/ IdentifySent(s, i)
    \/ IdentifyReady(s, i)
    \/ GateCancelled(s, i)

NextRelease ==
    \/ ConnectRelease
    \/ \E s \in ShardIds, i \in TaskIds : ReleaseStep(s, i)
    \/ \E s \in ShardIds, i \in TaskIds : \E f \in ReleaseFrames(s) : ConnectHello(s, i, f)
    \/ \E s \in ShardIds, i \in TaskIds : \E f \in ReleaseFrames(s) : MessageReceive(s, i, f)
    \/ \E s \in ShardIds : HandlerStart(s, FALSE)

SpecRelease == Init /\ [][NextRelease]_vars

\* --------------------------- SpecGate: several shards at the identify gate
\* Three shards behind a gate of two permits, or two behind a gate of one.
\* The server answers with HELLO and READY and may invalidate a session or
\* ask for a reconnect, MaxGateMsgs times over all shards; no timer fires.
RECURSIVE SumN(_)
SumN(S) == IF S = {} THEN 0
           ELSE LET x == CHOOSE y \in S : TRUE IN srv[x].n + SumN(S \ {x})

GateFrames(s) ==
    {f \in Frames(s, {}, {5}) :
        \/ f.m.op = OP_HELLO
        \/ /\ f.m.op \in {OP_DISPATCH, OP_INVALIDATE_SESSION, OP_RECONNECT}
           /\ SumN(shards) < MaxGateMsgs}

ConnectGate ==
    \E cfg \in {<<{}, 3, 2, 0>>, <<{1, 3}, 8, 1, 513>>} :
        ConnectionConnect(cfg[1], cfg[2], cfg[3], cfg[4], FALSE)

GateStep(s, i) ==
    \/ HappyStep(s, i)
    \/ ReconnectStart(s, i)
    \/ ReconnectClosed(s, i)
    \/ HeartbeatCancelled(s, i)
    \/ MessageInvalidated(s, i)
    \/ IdentifyStart(s, i)

NextGate ==
    \/ ConnectGate
    \/ \E s \in ShardIds, i \in TaskIds : GateStep(s, i)
    \/ \E s \in ShardIds, i \in TaskIds : \E f \in GateFrames(s) : ConnectHello(s, i, f)
    \/ \E s \in ShardIds, i \in TaskIds : \E f \in GateFrames(s) : MessageReceive(s, i, f)
    \/ \E s \in ShardIds : HandlerStart(s, FALSE)

SpecGate == Init /\ [][NextGate]_vars

\* ------------------------------------------ SpecHeartbeat: the heartbeat loop
\* One shard identifies; its heartbeat loop beats, is acknowledged or not, is
\* asked for a beat by the server (HEARTBEAT), and the socket may be closed.
HeartbeatFrames(s) ==
    {f \in Frames(s, {}, {5}) :
        \/ f.m.op \in {OP_HELLO, OP_HEARTBEAT, OP_HEARTBEAT_ACK, OP_RECONNECT}
        \/ f.m.op = OP_DISPATCH /\ f.m.t = "READY"}
    \cup {Frame("CLOSE_NONE", EmptyM, 0)}

HeartbeatStep(s, i) ==
    \/ HappyStep(s, i)
    \/ ReconnectStart(s, i)
    \/ ReconnectClosed(s, i)
    \/ HeartbeatBeat(s, i)
    \/ HeartbeatAcked(s, i)
    \/ HeartbeatTimeout(s, i)
    \/ HeartbeatCancelled(s, i)

NextHeartbeat ==
    \/ ConnectDecoder
    \/ \E s \in ShardIds, i \in TaskIds : HeartbeatStep(s, i)
    \/ \E s \in ShardIds, i \in TaskIds : \E f \in HeartbeatFrames(s) : ConnectHello(s, i, f)
    \/ \E s \in ShardIds, i \in TaskIds : \E f \in HeartbeatFrames(s) : MessageReceive(s, i, f)
    \/ \E s \in ShardIds : HandlerStart(s, FALSE)

SpecHeartbeat == Init /\ [][NextHeartbeat]_vars

\* ------------------------- SpecFault: messages that the decoder cannot decode
\* Besides HELLO, READY and events the socket hands out a message whose bytes
\* do not decompress and a message whose text is not JSON; the shard closes,
\* reconnects and resumes.  No timer fires.
CorruptFrames(s) ==
    IF stream[s].wire = <<>> /\ srv[s].n < MaxServerMsgs
    THEN {Frame("BINARY", m, 5) : m \in {EmptyM, BadJson}}
    ELSE {}

FaultFrames(s) ==
    {f \in Frames(s, PlainEvents, {5}) : f.m.op \in {OP_HELLO, OP_DISPATCH}}
    \cup CorruptFrames(s)

FaultStep(s, i) ==
    \/ HappyStep(s, i)
    \/ ReconnectStart(s, i)
    \/ ReconnectClosed(s, i)
    \/ ConnectClosed(s, i)
    \/ HeartbeatCancelled(s, i)

NextFault ==
    \/ ConnectDecoder
    \/ \E s \in ShardIds, i \in TaskIds : FaultStep(s, i)
    \/ \E s \in ShardIds, i \in TaskIds : \E f \in FaultFrames(s) : ConnectHello(s, i, f)
    \/ \E s \in ShardIds, i \in TaskIds : \E f \in FaultFrames(s) : MessageReceive(s, i, f)
    \/ \E s \in ShardIds : HandlerStart(s, FALSE)

SpecFault == Init /\ [][NextFault]_vars

\* ------------------- SpecSequence: heartbeats between events and reconnects
\* One shard identifies, receives events and beats; a message that is not
\* JSON makes it connect anew without resume.
SequenceFrames(s) ==
    {f \in Frames(s, PlainEvents, {5}) :
        f.m.op \in {OP_HELLO, OP_DISPATCH, OP_HEARTBEAT_ACK}}
    \cup {f \in CorruptFrames(s) : f.m = BadJson}

SequenceStep(s, i) ==
    \/ HappyStep(s, i)
    \/ ReconnectStart(s, i)
    \/ ReconnectClosed(s, i)
    \/ HeartbeatBeat(s, i)
    \/ HeartbeatAcked(s, i)
    \/ HeartbeatCancelled(s, i)

NextSequence ==
    \/ ConnectDecoder
    \/ \E s \in ShardIds, i \in TaskIds : SequenceStep(s, i)
    \/ \E s \in ShardIds, i \in TaskIds : \E f \in SequenceFrames(s) : ConnectHello(s, i, f)
    \/ \E s \in ShardIds, i \in TaskIds : \E f \in SequenceFrames(s) : MessageReceive(s, i, f)
    \/ \E s \in ShardIds : HandlerStart(s, FALSE)

SpecSequence == Init /\ [][NextSequence]_vars

\* --------------------------- SpecRetry: READY does not arrive in time
\* Two shards connect and send IDENTIFY; the wait for READY may time out.
\* The server answers every connection with HELLO and may answer IDENTIFY or
\* RESUME with READY or RESUMED.  The event loop runs every task that can
\* run: a step that stays possible is taken.
RetryFrames(s) ==
    {f \in Frames(s, PlainEvents, {5}) : f.m.op \in {OP_HELLO, OP_DISPATCH}}

RetryStep(s, i) ==
    \/ HappyStep(s, i)
    \/ ConnectClosed(s, i)
    \/ IdentifyTimeout(s, i)
    \/ HeartbeatCancelled(s, i)
    \/ MessageCancelled(s, i)

NextRetry ==
    \/ ConnectRelease
    \/ \E s \in ShardIds, i \in TaskIds : RetryStep(s, i)
    \/ \E s \in ShardIds, i \in TaskIds : \E f \in RetryFrames(s) : ConnectHello(s, i, f)
    \/ \E s \in ShardIds, i \in TaskIds : \E f \in RetryFrames(s) : MessageReceive(s, i, f)
    \/ \E s \in ShardIds : HandlerStart(s, FALSE)

SpecRetry == Init /\ [][NextRetry]_vars /\ WF_vars(NextRetry)

\* ------------------------------ SpecReconnect: the server asks to reconnect
\* One shard identifies and receives events; the server may send RECONNECT.
\* No timer fires, no connect fails and the heartbeat interval does not elapse.
ReconnectFrames(s) ==
    {f \in Frames(s, PlainEvents, {5}) :
        f.m.op \in {OP_HELLO, OP_DISPATCH, OP_RECONNECT}}

ReconnectStep(s, i) ==
    \/ HappyStep(s, i)
    \/ ReconnectStart(s, i)
    \/ ReconnectClosed(s, i)
    \/ HeartbeatCancelled(s, i)

NextReconnect ==
    \/ ConnectDecoder
    \/ \E s \in ShardIds, i \in TaskIds : ReconnectStep(s, i)
    \/ \E s \in ShardIds, i \in TaskIds : \E f \in ReconnectFrames(s) : ConnectHello(s, i, f)
    \/ \E s \in ShardIds, i \in TaskIds : \E f \in ReconnectFrames(s) : MessageReceive(s, i, f)
    \/ \E s \in ShardIds : HandlerStart(s, FALSE)

SpecReconnect == Init /\ [][NextReconnect]_vars

\* ------------------------- SpecRace: two connects of one shard at a time
\* One shard connects; the server asks it to reconnect while the heartbeat
\* loop beats.  The reconnect closes the socket, and a heartbeat that finds
\* the socket closed starts a connect of its own.
RaceFrames(s) ==
    {f \in Frames(s, {}, {5}) : f.m.op \in {OP_HELLO, OP_DISPATCH, OP_RECONNECT}}

ConnectRace == ConnectionConnect({2}, 4, 1, 0, FALSE)

RaceStep(s, i) ==
    \/ HappyStep(s, i)
    \/ ConnectClosed(s, i)
    \/ ReconnectStart(s, i)
    \/ ReconnectClosed(s, i)
    \/ HeartbeatBeat(s, i)
    \/ HeartbeatCancelled(s, i)
    \/ MessageCancelled(s, i)

NextRace ==
    \/ ConnectRace
    \/ \E s \in ShardIds, i \in TaskIds : RaceStep(s, i)
    \/ \E s \in ShardIds, i \in TaskIds : \E f \in RaceFrames(s) : ConnectHello(s, i, f)
    \/ \E s \in ShardIds, i \in TaskIds : \E f \in RaceFrames(s) : MessageReceive(s, i, f)

SpecRace == Init /\ [][NextRace]_vars

\* --------------------------- SpecFull: reconnects that give the session up
\* One shard identifies and receives events and a message whose text is not
\* JSON, which makes it reconnect without resume; the waits for HELLO and
\* READY of the new connection may time out.
FullFrames(s) ==
    {f \in Frames(s, PlainEvents, {5}) : f.m.op \in {OP_HELLO, OP_DISPATCH}}
    \cup {f \in CorruptFrames(s) : f.m = BadJson}

FullStep(s, i) ==
    \/ HappyStep(s, i)
    \/ ReconnectStart(s, i)
    \/ ReconnectClosed(s, i)
    \/ ConnectClosed(s, i)
    \/ ConnectHelloFail(s, i)
    \/ IdentifyTimeout(s, i)
    \/ HeartbeatCancelled(s, i)
    \/ MessageCancelled(s, i)

NextFull ==
    \/ ConnectRace
    \/ \E s \in ShardIds, i \in TaskIds : FullStep(s, i)
    \/ \E s \in ShardIds, i \in TaskIds : \E f \in FullFrames(s) : ConnectHello(s, i, f)
    \/ \E s \in ShardIds, i \in TaskIds : \E f \in FullFrames(s) : MessageReceive(s, i, f)
    \/ \E s \in ShardIds : HandlerStart(s, FALSE)

SpecFull == Init /\ [][NextFull]_vars

\* ------------------ SpecStale: a heartbeat loop outlives its connection
\* One shard identifies and beats; the server sends READY, HEARTBEAT,
\* HEARTBEAT_ACK and, to an identified session only, RECONNECT.  The event
\* loop is the strictest one: a task that was cancelled gets its
\* CancelledError before any other task takes a step, and no timer of the
\* connect phase fires.
StaleFrames(s) ==
    {f \in HeartbeatFrames(s) :
        /\ f.type = "BINARY"
        /\ f.m.op = OP_RECONNECT => srv[s].active}

StaleStep(s, i) ==
    \/ HappyStep(s, i)
    \/ ReconnectStart(s, i)
    \/ ReconnectClosed(s, i)
    \/ HeartbeatBeat(s, i)
    \/ HeartbeatAcked(s, i)

\* No task has a Task.cancel() pending: the event loop hands a cancelled
\* task its CancelledError on its next pass, before any I/O completes
NoCancelPending ==
    \A s \in ShardIds : \A i \in DOMAIN tasks[s] :
        tasks[s][i].pc = "done" \/ ~tasks[s][i].cancel

NextStale ==
    \/ \E s \in ShardIds, i \in TaskIds : HeartbeatCancelled(s, i)
    \/ \E s \in ShardIds, i \in TaskIds : MessageCancelled(s, i)
    \/ NoCancelPending /\ ConnectRace
    \/ NoCancelPending /\ \E s \in ShardIds, i \in TaskIds : StaleStep(s, i)
    \/ NoCancelPending /\ \E s \in ShardIds, i \in TaskIds :
            \E f \in StaleFrames(s) : ConnectHello(s, i, f)
    \/ NoCancelPending /\ \E s \in ShardIds, i \in TaskIds :
            \E f \in StaleFrames(s) : MessageReceive(s, i, f)

SpecStale == Init /\ [][NextStale]_vars

\* ------------------------------------ SpecChunk: member-chunk requests
\* One shard identifies; the owner asks for the members of a guild, with and
\* without a nonce, before and after the socket is open; the server answers
\* with GUILD_MEMBERS_CHUNK events.  The event loop runs every step that
\* can run.
ChunkEvents ==
    {[t |-> "GUILD_MEMBERS_CHUNK", d |-> Payload(FALSE, 1, 1, TRUE, {<<3, 1>>}, 0)]}

ChunkFrames(s) ==
    {f \in Frames(s, ChunkEvents, {5}) : f.m.op \in {OP_HELLO, OP_DISPATCH}}

NextChunk ==
    \/ ConnectDecoder
    \/ \E s \in ShardIds, i \in TaskIds : HappyStep(s, i)
    \/ \E s \in ShardIds, i \in TaskIds : \E f \in ChunkFrames(s) : ConnectHello(s, i, f)
    \/ \E s \in ShardIds, i \in TaskIds : \E f \in ChunkFrames(s) : MessageReceive(s, i, f)
    \/ \E s \in ShardIds : HandlerStart(s, FALSE)
    \/ \E s \in ShardIds, n \in Nonces \cup {NoneStr} : ChunkGuild(s, n)

SpecChunk == Init /\ [][NextChunk]_vars /\ WF_vars(NextChunk)

\* ------------------- SpecClose: the owner closes a shard and sets presence
\* One shard connects, identifies and beats; the server may ask for a
\* reconnect and the socket may fail.  At any moment the owner may call
\* close() on the shard, once, and change_presence().
CloseFrames(s) ==
    {f \in Frames(s, {}, {5}) :
        \/ f.m.op \in {OP_HELLO, OP_RECONNECT}
        \/ f.m.op = OP_DISPATCH /\ f.m.t \in {"READY", "RESUMED"}}
    \cup {Frame("ERROR", EmptyM, 0)}

CloseStep(s, i) ==
    \/ HappyStep(s, i)
    \/ ReconnectStart(s, i)
    \/ ReconnectClosed(s, i)
    \/ HeartbeatBeat(s, i)
    \/ HeartbeatCancelled(s, i)
    \/ MessageCancelled(s, i)

NextClose ==
    \/ ConnectDecoder
    \/ \E s \in ShardIds, i \in TaskIds : CloseStep(s, i)
    \/ \E s \in ShardIds, i \in TaskIds : \E f \in CloseFrames(s) : ConnectHello(s, i, f)
    \/ \E s \in ShardIds, i \in TaskIds : \E f \in CloseFrames(s) : MessageReceive(s, i, f)
    \/ \E s \in ShardIds : HandlerStart(s, FALSE)
    \/ \E s \in ShardIds : CloseStart(s)
    \/ \E s \in ShardIds : CloseDone(s)
    \/ \E s \in ShardIds : ChangePresence(s)

SpecClose == Init /\ [][NextClose]_vars

\* =================================================================== claims
LastT(s) == IF received[s] = <<>> THEN NoneStr ELSE received[s][Len(received[s])].t

\* The handler tasks of shard s that have not yet run their cache code
HandlersOf(s) == suspended[s] \cup {pending[s][k] : k \in DOMAIN pending[s]}

\* The step in which handler h of shard s runs its cache code
Handled(s, h) ==
    \/ /\ pending[s] # <<>>
       /\ Head(pending[s]) = h
       /\ HandlerStart(s, FALSE)
    \/ HandlerResume(s, h)

\* C1: a binary frame that does not end with the marker 00 00 FF FF emits no
\* message and leaves the receive loop reading the next frame.
C1_PartialFrameKeepsReading ==
    [][\A s \in ShardIds, i \in TaskIds : \A f \in DecoderFrames(s) :
        (MessageReceive(s, i, f) /\ ~EndsWithMarker(RecvBuffer(s, f)))
        => /\ received'[s] = received[s]
           /\ i \in DOMAIN tasks'[s]
           /\ tasks'[s][i].kind = "message"
           /\ tasks'[s][i].pc = "recv"]_vars

\* C2: every new value of a shard's sequence is >= the one before, except
\* that it becomes null when a connect without resume is chosen.
C2_SequenceNeverDecreases ==
    [][\A s \in ShardIds :
        \/ sequence'[s] >= sequence[s]
        \/ /\ sequence'[s] = NoneInt
           /\ \E i \in DOMAIN tasks'[s] :
                /\ tasks'[s][i].kind = "connect"
                /\ ~tasks'[s][i].resume
                /\ tasks'[s][i].pc \in {"c_sleep", "c_sem"}]_vars

\* C3: when the wait for the acknowledgement times out after 5 or fewer
\* earlier attempts of the beat, the heartbeat loop retries in place: the
\* heartbeat task goes on with the next attempt.
C3_TimeoutRetriesInPlace ==
    [][\A s \in ShardIds, i \in TaskIds :
        (HeartbeatTimeout(s, i) /\ tasks[s][i].ba <= BeatAttemptRetryMax)
        => /\ i \in DOMAIN tasks'[s]
           /\ tasks'[s][i].kind = "heartbeat"
           /\ tasks'[s][i].pc = "wait"
           /\ tasks'[s][i].ba = tasks[s][i].ba + 1]_vars

\* The identify-or-resume operations between gate acquire and gate release
InFlight ==
    {x \in ShardIds \X TaskIds :
        /\ x[2] \in DOMAIN tasks[x[1]]
        /\ tasks[x[1]][x[2]].pc = "id_sending"}

AtGate ==
    {x \in ShardIds \X TaskIds :
        /\ x[2] \in DOMAIN tasks[x[1]]
        /\ tasks[x[1]][x[2]].pc = "id_sem"}

\* C4: at no time are more than max_concurrency identify-or-resume
\* operations in flight between gate acquire and gate release.
C4_GateCapacity ==
    /\ Cardinality(InFlight) <= max_concurrency
    /\ identify_semaphore + Cardinality(InFlight) = max_concurrency

C4_GateFull ==
    /\ Cardinality(shards) = 3
    /\ max_concurrency = 2
    /\ Cardinality(InFlight) = 2
    /\ AtGate # {}

\* C5 (amended): INVALIDATE_SESSION with payload true makes the shard send
\* RESUME, not IDENTIFY, on its socket with the session_id and sequence it
\* holds then; the handling leaves both unchanged, and the RESUMED that
\* follows leaves session_id unchanged and sets sequence to its own sequence
\* number, which is never lower.
C5_InvalidateTrueResumes ==
    [][\A s \in ShardIds, i \in TaskIds :
        /\ (MessageInvalidated(s, i) /\ tasks[s][i].resume)
           => /\ tasks'[s][Len(tasks'[s])].kind = "identify"
              /\ tasks'[s][Len(tasks'[s])].resume
              /\ sequence'[s] = sequence[s]
              /\ session_id'[s] = session_id[s]
        /\ (/\ IdentifyAcquire(s, i)
            /\ tasks[s][i].kind = "identify"
            /\ tasks[s][i].resume
            /\ SocketOpen(s))
           => /\ sent'[s].op = OP_RESUME
              /\ sent'[s].sock = socket[s].id
              /\ sent'[s].session_id = session_id[s]
              /\ sent'[s].seq = sequence[s]
        /\ \A f \in WholeFrames(s) :
            (MessageReceive(s, i, f) /\ RecvOutcome(s, f) = "msg")
            => /\ RecvParsed(s, f).op = OP_INVALIDATE_SESSION
                  => sequence'[s] = sequence[s] /\ session_id'[s] = session_id[s]
               /\ (RecvParsed(s, f).op = OP_DISPATCH /\ RecvParsed(s, f).t = "RESUMED")
                  => /\ session_id'[s] = session_id[s]
                     /\ sequence'[s] = RecvParsed(s, f).s
                     /\ sequence'[s] >= sequence[s]]_vars

\* A RESUME sent for INVALIDATE_SESSION true was answered by RESUMED
ResumedAfterInvalidate(s) ==
    /\ LastT(s) = "RESUMED"
    /\ sent[s].op = OP_RESUME
    /\ \E i \in DOMAIN tasks[s] :
        /\ tasks[s][i].kind = "identify"
        /\ tasks[s][i].resume
        /\ tasks[s][i].pc = "id_wait"
        /\ tasks[s][i].woken

C5_Resumed == \E s \in ShardIds : ResumedAfterInvalidate(s)

\* C5 as first stated: after the RESUMED that follows, session_id and
\* sequence are the values they had before the INVALIDATE_SESSION (the ones
\* the RESUME carried).
C5_SequenceAsBefore ==
    \A s \in ShardIds :
        ResumedAfterInvalidate(s)
        => sequence[s] = sent[s].seq /\ session_id[s] = sent[s].session_id

\* C6: after INVALIDATE_SESSION with payload false, session_id and sequence
\* are both null at the moment the next IDENTIFY is sent.
C6_IdentifyAfterInvalidateIsFresh ==
    [][\A s \in ShardIds, i \in TaskIds :
        (/\ IdentifyAcquire(s, i)
         /\ tasks[s][i].kind = "identify"
         /\ ~tasks[s][i].resume
         /\ sent'[s].op = OP_IDENTIFY)
        => sequence[s] = NoneInt /\ session_id[s] = NoneStr]_vars

\* C7: the IDENTIFY message of a shard has opcode 2, shard field
\* [shard_id, shard_count] and intents field the connection's intents value.
C7_IdentifyPayload ==
    \A s \in ShardIds :
        sent[s].op = 2 => sent[s].shard = <<s, shard_count>> /\ sent[s].intents = intents

C7_Shard3Of8 ==
    /\ sent[3].op = 2
    /\ sent[3].shard = <<3, 8>>
    /\ sent[3].intents = 513

\* C8: when a GUILD_UPDATE without member data is handled for a guild that
\* is in the cache, the members cached for the guild stay as they were.
C8_UpdateKeepsMembers ==
    [][\A s \in ShardIds : \A h \in HandlersOf(s) :
        (/\ Handled(s, h)
         /\ h.t = "GUILD_UPDATE"
         /\ ~h.d.has_members
         /\ cache.guilds[h.d.gid].present)
        => cache'.guilds[h.d.gid].members = cache.guilds[h.d.gid].members]_vars

C8_UpdatedWithMembers ==
    /\ cache.guilds[1].present
    /\ cache.guilds[1].ver = 2
    /\ cache.guilds[1].members = {<<1, 1>>, <<2, 1>>}
    /\ started[0] # <<>>
    /\ started[0][Len(started[0])].t = "GUILD_UPDATE"

\* C9: the handlers of a shard's DISPATCH events start in the order the
\* messages were received: none is reordered, lost or started twice.
C9_DispatchInOrder ==
    \A s \in ShardIds :
        /\ Len(started[s]) + Len(pending[s]) = Len(received[s])
        /\ \A k \in DOMAIN started[s] :
            /\ started[s][k].idx = k
            /\ started[s][k].t = received[s][k].t
            /\ started[s][k].s = received[s][k].s
        /\ \A k \in DOMAIN pending[s] :
            /\ pending[s][k].idx = Len(started[s]) + k
            /\ pending[s][k].s = received[s][Len(started[s]) + k].s

C9_TwoQueuedThenStarted ==
    \E s \in ShardIds :
        /\ Len(received[s]) = 3
        /\ Len(started[s]) = 1
        /\ Len(pending[s]) = 2

\* C10: the handler of event N+1 runs its cache code only after the handler
\* of event N has finished its cache mutation: no earlier handler is still
\* suspended before its write.
C10_MutationBeforeNextRead ==
    [][\A s \in ShardIds : \A k \in HandlersOf(s) :
        Handled(s, k) => \A h \in suspended[s] : h.idx >= k.idx]_vars

\* The receive task of shard s is reading: message_handler waits in receive()
Receiving(s) ==
    \E i \in DOMAIN tasks[s] :
        /\ tasks[s][i].kind = "message"
        /\ tasks[s][i].pc = "recv"
        /\ ~tasks[s][i].cancel

\* C11: an exception raised inside a dispatch handler is caught and dropped:
\* the step in which the handler fails leaves the shard's tasks (the receive
\* loop among them), its socket, its connection state and its events as they
\* were, and does not end the process.
C11_HandlerErrorIsDropped ==
    [][\A s \in ShardIds : \A h \in HandlersOf(s) :
        (Handled(s, h) /\ Raises(h))
        => /\ tasks'[s] = tasks[s]
           /\ Receiving(s) => Receiving(s)'
           /\ socket'[s] = socket[s]
           /\ state'[s] = state[s]
           /\ connecting'[s] = connecting[s]
           /\ ready_received'[s] = ready_received[s]
           /\ sequence'[s] = sequence[s]
           /\ exited' = exited]_vars

\* A GUILD_UPDATE handler has failed and the handler of a later event has run
\* on the same shard, which is Ready and still reading its socket.
C11_ErrorThenLaterEvent ==
    \E s \in ShardIds : \E r \in results[s], q \in results[s] :
        /\ r.raised
        /\ r.t = "GUILD_UPDATE"
        /\ q.idx > r.idx
        /\ state[s] = "Ready"
        /\ SocketOpen(s)
        /\ Receiving(s)

\* Shard s makes or will make a connect, identify or resume attempt: the
\* process runs and a connect or send_resume_identify coroutine is not done
Attempting(s) ==
    /\ ~exited
    /\ \E i \in DOMAIN tasks[s] :
        /\ tasks[s][i].kind \in {"connect", "identify"}
        /\ tasks[s][i].pc # "done"

\* C12: once a CLOSE frame with the authentication-failure code has been
\* read, while waiting for HELLO or in the receive loop, the shard makes no
\* further connect, identify or resume attempt.
C12_AuthFailureIsFatal ==
    [][\A s \in ShardIds, i \in TaskIds : \A f \in WholeFrames(s) :
        ((ConnectHello(s, i, f) \/ MessageReceive(s, i, f)) /\ f.type = "CLOSE_AUTH")
        => ~Attempting(s)']_vars

\* Frame f completes a message that does not decompress or does not parse
DecodeFails(s, f) ==
    /\ f.type = "BINARY"
    /\ EndsWithMarker(RecvBuffer(s, f))
    /\ \/ ~DecompressOk(RecvBuffer(s, f), zlib[s], socket[s].id, stream[s].used)
       \/ ~ParseOk(RecvBuffer(s, f)[1].m)

\* C13: when a completed message fails to decompress or to parse, the process
\* goes on and the shard reconnects: the receive loop spawns reconnect(), the
\* HELLO wait starts _connect again; and every frame that starts a message is
\* read with an empty byte buffer.
C13_DecodeFailureReconnects ==
    [][\A s \in ShardIds, i \in TaskIds : \A f \in FaultFrames(s) :
        /\ (MessageReceive(s, i, f) /\ DecodeFails(s, f))
           => /\ ~exited'
              /\ tasks'[s] # <<>>
              /\ tasks'[s][Len(tasks'[s])].kind = "connect"
              /\ tasks'[s][Len(tasks'[s])].pc = "rc_start"
        /\ (ConnectHello(s, i, f) /\ DecodeFails(s, f))
           => /\ ~exited'
              /\ i \in DOMAIN tasks'[s]
              /\ tasks'[s][i].kind = "connect"
              /\ tasks'[s][i].pc = "c_start"
        /\ (MessageReceive(s, i, f) \/ ConnectHello(s, i, f))
           => buffer[s] = <<>>]_vars

\* A message did not decompress in the receive loop: its bytes are still in
\* the buffer, the receive task is over and reconnect(resume=True) is spawned.
C13_FailedAndReconnecting ==
    \E s \in ShardIds :
        /\ buffer[s] # <<>>
        /\ ~Receiving(s)
        /\ tasks[s] # <<>>
        /\ tasks[s][Len(tasks[s])].kind = "connect"
        /\ tasks[s][Len(tasks[s])].pc = "rc_start"
        /\ tasks[s][Len(tasks[s])].resume

\* C14: after the owner has called close() on a shard, the shard opens no
\* new socket and sends no further message.
C14_ClosedShardStaysClosed ==
    [][\A s \in ShardIds :
        closing[s] # "no"
        => /\ socket'[s].id = socket[s].id
           /\ sent'[s] = sent[s]]_vars

\* GatewayConnection.close() has closed every shard
AllClosed == shards # {} /\ \A s \in shards : closing[s] = "closed"

\* No coroutine of shard s is left that could take a step
Quiescent(s) ==
    /\ pending[s] = <<>>
    /\ suspended[s] = {}
    /\ \A i \in DOMAIN tasks[s] : tasks[s][i].pc = "done"

\* GatewayConnection.wait(): the loop of lines 178-179 ends
WaitReturns == \A s \in shards : ~Running(s)

\* C15: after close() has closed every shard, every shard comes to report
\* running = False and wait() returns; so once no coroutine of any shard is
\* left to run, running is False for every shard.
C15_ClosedShardsStop ==
    (AllClosed /\ \A s \in shards : Quiescent(s)) => WaitReturns

\* C16: running is true exactly when the heartbeat task or the receive task
\* is outstanding, or the socket is open, or the connecting flag is set.
C16_RunningIffLive ==
    \A s \in shards :
        Running(s) <=> \/ Outstanding(s, "heartbeat")
                       \/ Outstanding(s, "message")
                       \/ SocketOpen(s)
                       \/ connecting[s]

\* The connect() of shard s that GatewayConnection.connect awaits is at pc
RootAt(s, pc) ==
    \E i \in DOMAIN tasks[s] : tasks[s][i].root /\ tasks[s][i].pc = pc

\* asyncio.gather(...) of line 171 is complete: every connect() it awaits
\* has returned, and GatewayConnection.connect returns
ConnectReturned ==
    /\ shards # {}
    /\ \A s \in shards : \A i \in DOMAIN tasks[s] :
        tasks[s][i].root => tasks[s][i].pc = "done"

\* C17: GatewayConnection.connect returns once all shards have entered their
\* connect sequence, without waiting for a shard to become Ready: when every
\* shard has sent its IDENTIFY and waits for READY, connect has returned.
C17_ReturnsBeforeReady ==
    (/\ shards # {}
     /\ \A s \in shards :
            /\ RootAt(s, "id_wait")
            /\ state[s] = "Waiting for READY/RESUMED"
            /\ ~ready_received[s])
    => ConnectReturned

\* Shard s is Ready: its socket is open and a READY or RESUMED was received
\* on it
ReadyOnSocket(s) ==
    /\ SocketOpen(s)
    /\ \E k \in DOMAIN received[s] :
        /\ received[s][k].t \in {"READY", "RESUMED"}
        /\ received[s][k].sock = socket[s].id

\* C18: change_presence sends a presence update only on a shard that is
\* Ready; on any other shard it sends nothing and changes nothing.
C18_PresenceOnlyWhenReady ==
    [][\A s \in ShardIds :
        (ChangePresence(s) /\ ~ReadyOnSocket(s))
        => /\ sent'[s] = sent[s]
           /\ UNCHANGED vars]_vars

\* C19: after a READY event is processed the shard's session_id and
\* resume_url are the session_id and resume_gateway_url of its payload.
C19_ReadySetsSession ==
    [][\A s \in ShardIds : \A h \in HandlersOf(s) :
        (Handled(s, h) /\ h.t = "READY")
        => /\ session_id'[s] = ReadySessionId
           /\ resume_url'[s] = ReadyResumeUrl]_vars

\* C20: for a known event whose handler produced a (normalized_name, entity)
\* pair, handle_dispatch returns that pair.
C20_HandleReturnsPair ==
    \A s \in ShardIds : \A r \in results[s] :
        (r.t \in EventHandler /\ r.handler # NoneRet)
        => r.ret = r.handler

\* C21: a DISPATCH event whose name has no entry in the handler table is
\* dropped: the step that handles it leaves the cache unchanged, runs no
\* handler, and leaves the receive loop, the socket and the process as they
\* were.
C21_UnmappedEventIsDropped ==
    [][\A s \in ShardIds : \A h \in HandlersOf(s) :
        (Handled(s, h) /\ h.t # "READY" /\ h.t \notin EventHandler)
        => /\ cache' = cache
           /\ \A r \in results'[s] \ results[s] : ~r.ran
           /\ tasks'[s] = tasks[s]
           /\ Receiving(s) => Receiving(s)'
           /\ socket'[s] = socket[s]
           /\ exited' = exited]_vars

\* With a guild and its members in the cache, an event without a handler was
\* handled, the handler of a later event has run, and the shard is reading.
C21_UnmappedThenLaterEvent ==
    \E s \in ShardIds : \E r \in results[s], q \in results[s] :
        /\ r.t \notin EventHandler
        /\ r.t # "READY"
        /\ ~r.ran
        /\ q.idx > r.idx
        /\ q.ran
        /\ cache.guilds[1].present
        /\ cache.guilds[1].members # {}
        /\ Receiving(s)

\* The result that the step from the unprimed to the primed state adds for
\* handler h of shard s
NewResult(s, h) == {r \in results'[s] \ results[s] : r.idx = h.idx}

InConnect ==
    {x \in ShardIds \X TaskIds :
        /\ x[2] \in DOMAIN tasks[x[1]]
        /\ tasks[x[1]][x[2]].pc = "c_ws"}

\* C23: each gate is acquired before its step and released when the step
\* ends, also by an error or a cancellation: the free permits and the tasks
\* inside the gated step always add up to the capacity of the gate, so the
\* holders never exceed it and with no task inside every permit is free.
C23_GatesReleased ==
    shards # {}
    => /\ connect_semaphore >= 0
       /\ connect_semaphore + Cardinality(InConnect) = ConnectSemaphoreSize
       /\ identify_semaphore >= 0
       /\ identify_semaphore + Cardinality(InFlight) = max_concurrency
       /\ InConnect = {} => connect_semaphore = ConnectSemaphoreSize
       /\ InFlight = {} => identify_semaphore = max_concurrency

\* Shard a sent IDENTIFY and was cancelled inside the identify gate (it has no
\* connect task left and never came to wait for READY); shard b, whose first
\* ws_connect raised inside the connect gate, now holds the only permit.
C23_ReleasedThenTaken ==
    \E a \in shards, b \in shards :
        /\ a # b
        /\ max_concurrency = 1
        /\ sent[a].op = OP_IDENTIFY
        /\ state[a] = "Sending IDENTIFY/RESUME"
        /\ \A i \in DOMAIN tasks[a] : tasks[a][i].kind \notin {"connect", "identify"}
        /\ \E i \in DOMAIN tasks[b] :
            /\ tasks[b][i].kind = "connect"
            /\ tasks[b][i].attempt = 2
            /\ tasks[b][i].pc = "id_sending"
        /\ identify_semaphore = 0
        /\ connect_semaphore = ConnectSemaphoreSize

\* C24: every failure but the authentication failure is recovered by the
\* shard: a shard that its owner has not closed is never left not Ready with
\* no task that retries.  In a state where the process runs and no coroutine
\* of the shard is left to take a step, the shard is Ready.
C24_NoShardLeftBehind ==
    \A s \in shards :
        (closing[s] = "no" /\ ~exited /\ Quiescent(s)) => state[s] = "Ready"

\* A _connect without resume of shard s has passed its entry (lines 541-543)
FullConnectEntered(s) ==
    \E i \in DOMAIN tasks[s] :
        /\ tasks[s][i].kind = "connect"
        /\ ~tasks[s][i].resume
        /\ tasks[s][i].pc \in {"c_sleep", "c_sem"}

\* C25: every HEARTBEAT a shard sends carries the sequence the shard holds
\* when it sends, and that sequence is the s of the last DISPATCH received,
\* or null if none was received since the last connect without resume: a
\* received DISPATCH sets it to its s, and nothing else changes it but the
\* entry of a connect without resume, which sets it to null.
C25_HeartbeatCarriesSequence ==
    [][\A s \in ShardIds :
        /\ srv'[s].beats > srv[s].beats
           => /\ sent'[s].op = OP_HEARTBEAT
              /\ sent'[s].sock = socket[s].id
              /\ sent'[s].seq = sequence[s]
        /\ Len(received'[s]) > Len(received[s])
           => sequence'[s] = received'[s][Len(received'[s])].s
        /\ (Len(received'[s]) = Len(received[s]) /\ sequence'[s] # sequence[s])
           => sequence'[s] = NoneInt /\ FullConnectEntered(s)']_vars

\* After events were received on the first socket the shard connected anew
\* without resume, and the heartbeat sent on the second socket carries null.
C25_NullAfterFullConnect ==
    \E s \in ShardIds :
        /\ Len(received[s]) >= 2
        /\ sent[s].op = OP_HEARTBEAT
        /\ sent[s].sock = 2
        /\ sent[s].seq = NoneInt
        /\ \A k \in DOMAIN received[s] : received[s][k].sock = 1

\* A reconnect of shard s is pending: a reconnect() or connect() coroutine
\* is not done
ReconnectPending(s) ==
    \E j \in DOMAIN tasks[s] :
        tasks[s][j].kind = "connect" /\ tasks[s][j].pc # "done"

\* C26: from Ready, an ERROR frame read by the receive loop makes the shard
\* leave Ready and start a reconnect: after the step the shard does not
\* report Ready with the receive loop over and no reconnect pending.
C26_SocketErrorReconnects ==
    [][\A s \in ShardIds, i \in TaskIds : \A f \in WholeFrames(s) :
        (MessageReceive(s, i, f) /\ f.type = "ERROR" /\ state[s] = "Ready")
        => \/ state'[s] # "Ready"
           \/ ReconnectPending(s)'
           \/ Receiving(s)']_vars

\* The states _connect can be in when ws_connect raises or the HELLO wait fails
BeforeHello == {"Connecting", "Reconnecting", "Waiting for HELLO"}

\* C27: a failed socket open or a HELLO wait that times out is followed by
\* another attempt of the connect phase with the attempt counter one higher
\* and the same resume mode and URL: the failing step starts _connect again
\* with these arguments, and the new attempt goes to the connect gate with
\* them.
C27_RetryKeepsMode ==
    [][\A s \in ShardIds, i \in TaskIds :
        /\ (WsConnect(s, i, FALSE) \/ ConnectHelloFail(s, i))
           => /\ i \in DOMAIN tasks'[s]
              /\ tasks'[s][i].kind = "connect"
              /\ tasks'[s][i].pc = "c_start"
              /\ tasks'[s][i].attempt = tasks[s][i].attempt + 1
              /\ tasks'[s][i].resume = tasks[s][i].resume
              /\ tasks'[s][i].url = tasks[s][i].url
        /\ (/\ ConnectStart(s, i) \/ ConnectClosed(s, i)
            /\ tasks[s][i].attempt > 1
            /\ state[s] \in BeforeHello)
           => /\ i \in DOMAIN tasks'[s]
              /\ tasks'[s][i].attempt = tasks[s][i].attempt
              /\ tasks'[s][i].resume = tasks[s][i].resume
              /\ tasks'[s][i].url = tasks[s][i].url]_vars

\* The connect phase of shard s is in its attempt n and at pc
AttemptAt(s, n, pcs) ==
    \E i \in DOMAIN tasks[s] :
        /\ tasks[s][i].kind = "connect"
        /\ tasks[s][i].attempt = n
        /\ tasks[s][i].pc \in pcs

\* IDENTIFY or RESUME was sent on socket n of shard s
IdentifiedOn(s, n) ==
    /\ sent[s].op \in {OP_IDENTIFY, OP_RESUME}
    /\ sent[s].sock = n

C29_ReadyMeansOperational ==
    \A s \in ShardIds :
        state[s] = "Ready"
        => /\ ReadyOnSocket(s)
           /\ ~connecting[s]

\* The heartbeat loops of shard s that have not ended
LiveHeartbeats(ts) ==
    {j \in DOMAIN ts : ts[j].kind = "heartbeat" /\ ts[j].pc # "done"}

\* C30: when the server sends a HEARTBEAT opcode the running heartbeat loop
\* is stopped and a new one is started that beats at once and then goes on
\* at the normal interval: the new loop starts without its first wait, its
\* first step sends a heartbeat, and the loop it replaces ends at its
\* cancellation without sending anything more.
C30_ServerHeartbeatRestartsLoop ==
    [][\A s \in ShardIds, i \in TaskIds :
        /\ (\E f \in HeartbeatFrames(s) :
                MessageReceive(s, i, f) /\ f.m.op = OP_HEARTBEAT)
           => \E j \in LiveHeartbeats(tasks'[s]) :
                /\ tasks'[s][j].ref
                /\ tasks'[s][j].pc = "start"
                /\ \A k \in LiveHeartbeats(tasks'[s]) \ {j} : tasks'[s][k].cancel
        /\ (HeartbeatBeat(s, i) /\ tasks[s][i].pc = "start")
           => /\ sent'[s].op = OP_HEARTBEAT
              /\ i \in DOMAIN tasks'[s]
              /\ tasks'[s][i].pc = "wait"
        /\ (HeartbeatCancelled(s, i) /\ ~tasks[s][i].ref)
           => /\ sent'[s] = sent[s]
              /\ Cardinality(LiveHeartbeats(tasks'[s]))
                    = Cardinality(LiveHeartbeats(tasks[s])) - 1]_vars

\* The sequence of the last DISPATCH shard s received
LastSequence(s) ==
    IF received[s] = <<>> THEN NoneInt ELSE received[s][Len(received[s])].s

\* Task i of shard s is the reconnect() a RECONNECT opcode started
IsReconnect(s, i) ==
    /\ i \in DOMAIN tasks[s]
    /\ tasks[s][i].kind = "connect"
    /\ ~tasks[s][i].root

\* C31: on a RECONNECT opcode the receive loop stops and a reconnect with
\* resume starts; the reconnect closes the socket, opens a new one and sends
\* RESUME, not IDENTIFY, with the shard's session_id and the sequence of the
\* last DISPATCH received before RECONNECT; the sequence is never reset.
C31_ReconnectResumes ==
    [][\A s \in ShardIds, i \in TaskIds :
        /\ (\E f \in ReconnectFrames(s) :
                /\ MessageReceive(s, i, f)
                /\ RecvOutcome(s, f) = "msg"
                /\ RecvParsed(s, f).op = OP_RECONNECT)
           => /\ ~Receiving(s)'
              /\ sequence'[s] = sequence[s]
              /\ \E j \in DOMAIN tasks'[s] :
                    /\ tasks'[s][j].kind = "connect"
                    /\ tasks'[s][j].pc = "rc_start"
                    /\ tasks'[s][j].resume
        /\ (IsReconnect(s, i) /\ ReconnectStep(s, i))
           => /\ sequence'[s] = sequence[s]
              /\ sequence[s] = LastSequence(s)
        /\ (IsReconnect(s, i) /\ IdentifyAcquire(s, i) /\ sent'[s] # sent[s])
           => /\ sent'[s].op = OP_RESUME
              /\ sent'[s].seq = LastSequence(s)
              /\ sent'[s].session_id = session_id[s]
              /\ sent'[s].sock = socket[s].id
              /\ socket[s].id > 1]_vars

\* RESUME with the sequence of the old connection went out on the new socket
C31_ResumedOnNewSocket ==
    \E s \in ShardIds :
        /\ sent[s].op = OP_RESUME
        /\ sent[s].sock = 2
        /\ sent[s].seq = 2
        /\ sequence[s] = 2
        /\ SocketOpen(s)

\* C32: every time a shard opens a new socket its byte buffer is empty and
\* its decompressor is fresh, and the receive loop of the previous connection
\* touches neither afterwards: a loop that was replaced reads nothing into
\* the buffer or the decompressor.
C32_FreshDecoderPerSocket ==
    [][\A s \in ShardIds, i \in TaskIds :
        /\ WsConnect(s, i, TRUE)
           => /\ buffer'[s] = <<>>
              /\ zlib'[s] = 0
        /\ (/\ i \in DOMAIN tasks[s]
            /\ tasks[s][i].kind = "message"
            /\ ~tasks[s][i].ref
            /\ \E f \in Frames(s, PlainEvents, AllSplits) \cup ControlFrames :
                    MessageReceive(s, i, f))
           => /\ buffer'[s] = buffer[s]
              /\ zlib'[s] = zlib[s]]_vars

\* The connect() and reconnect() coroutines of a shard that have not ended
LiveConnects(ts) ==
    {j \in DOMAIN ts : ts[j].kind = "connect" /\ ts[j].pc # "done"}

\* C33: a cancelled heartbeat task ends at its next suspension point,
\* whichever it is (interval sleep, send, acknowledgement wait): the step
\* that delivers the cancellation ends the loop, sends no heartbeat and
\* starts no reconnect.
C33_CancelledHeartbeatEnds ==
    [][\A s \in ShardIds, i \in TaskIds :
        HeartbeatCancelled(s, i)
        => /\ sent'[s] = sent[s]
           /\ Cardinality(LiveHeartbeats(tasks'[s]))
                < Cardinality(LiveHeartbeats(tasks[s]))
           /\ Cardinality(LiveConnects(tasks'[s]))
                = Cardinality(LiveConnects(tasks[s]))]_vars

\* C34: after an explicit reconnect without resume the old session is not
\* reused: the reconnect opens its socket at the base gateway URL, sends
\* IDENTIFY and not RESUME, and sends no session_id.
C34_FullReconnectIdentifies ==
    [][\A s \in ShardIds, i \in TaskIds :
        IsReconnect(s, i)
        => /\ WsConnect(s, i, TRUE) => tasks[s][i].url = "base"
           /\ (IdentifyAcquire(s, i) /\ sent'[s] # sent[s])
              => /\ sent'[s].op = OP_IDENTIFY
                 /\ sent'[s].session_id = NoneStr]_vars

\* The oldest handler task not yet started is the one of a
\* GUILD_MEMBERS_CHUNK event (every such event of the model answers nonce "a")
ChunkReplyNext(s) ==
    /\ pending[s] # <<>>
    /\ Head(pending[s]).t = "GUILD_MEMBERS_CHUNK"

\* C35: a pending member-chunk request is created under its nonce when
\* chunk_guild sends the request, takes up the members of the chunk replies
\* with that nonce, has its completion signal set and is then removed: no
\* entry stays for ever, also when the send fails.
C35_ChunkRequestCompletes ==
    /\ [][\A s \in ShardIds, n \in Nonces :
            ChunkGuild(s, n) => chunks'[s][n] = NewChunk]_vars
    /\ [][\A s \in ShardIds, n \in Nonces :
            (HandlerStart(s, FALSE) /\ ChunkReplyNext(s) /\ chunks[s][n].present)
                => chunks'[s][n].counter = chunks[s][n].counter + 1]_vars
    /\ \A s \in ShardIds, n \in Nonces :
            chunks[s][n].present ~> ~chunks[s][n].present

\* C36: the heartbeat loop takes a heartbeat as acknowledged only by a
\* HEARTBEAT_ACK received after that heartbeat was sent: when the wait of
\* the shard's only heartbeat loop returns, the server has acknowledged the
\* last heartbeat it was sent.
C36_AckIsForThisHeartbeat ==
    [][\A s \in ShardIds, i \in TaskIds :
        (HeartbeatAcked(s, i) /\ LiveHeartbeats(tasks[s]) = {i})
            => ~srv[s].ack_due]_vars

\* The tasks of one kind that have not ended and have no cancellation
\* pending: a task that Task.cancel() was called on is not counted, although
\* it runs until the CancelledError is delivered.
RunningTasks(ts, kind) ==
    {j \in DOMAIN ts : ts[j].kind = kind /\ ts[j].pc # "done" /\ ~ts[j].cancel}

\* C37: at every moment each shard has at most one live heartbeat loop, at
\* most one live receive loop and at most one connect attempt in progress.
C37_OneLoopOfEachKind ==
    \A s \in ShardIds :
        /\ Cardinality(RunningTasks(tasks[s], "heartbeat")) <= 1
        /\ Cardinality(RunningTasks(tasks[s], "message")) <= 1
        /\ Cardinality(RunningTasks(tasks[s], "connect")) <= 1

\* C38: the connect that GatewayConnection.connect requests with resume =
\* False sends IDENTIFY with no sequence, on every attempt, and a RESUME is
\* sent only while the shard holds a session_id.
C38_FreshConnectIdentifies ==
    [][\A s \in ShardIds, i \in TaskIds :
        (IdentifyAcquire(s, i) /\ sent'[s] # sent[s])
        => /\ tasks[s][i].root
              => /\ sent'[s].op = OP_IDENTIFY
                 /\ sent'[s].seq = NoneInt
           /\ sent'[s].op = OP_RESUME => session_id[s] # NoneStr]_vars

\* C39: on every socket the shard sends no IDENTIFY, RESUME or HEARTBEAT
\* before a HELLO has arrived on that socket, and a heartbeat loop or a
\* receive loop is started only on a socket whose HELLO has arrived.
C39_NothingBeforeHello ==
    [][\A s \in ShardIds :
        /\ (/\ sent'[s] # sent[s]
            /\ sent'[s].op \in {OP_IDENTIFY, OP_RESUME, OP_HEARTBEAT})
           => stream[s].hello
        /\ (\/ Cardinality(LiveHeartbeats(tasks'[s])) > Cardinality(LiveHeartbeats(tasks[s]))
            \/ Cardinality(RunningTasks(tasks'[s], "message"))
                    > Cardinality(RunningTasks(tasks[s], "message")))
           => stream'[s].hello]_vars

====
